---------------------------- MODULE Spec2Model ----------------------------
(***************************************************************************)
(* AdVidly (Varunnnn/AdStreamr): the in-memory storage layer (MemStorage), *)
(* the session store and the Express route handlers of server/routes.ts,   *)
(* as a state machine.                                                     *)
(*                                                                         *)
(* A handler runs atomically up to its first await on real I/O             *)
(* (bcrypt.hash, bcrypt.compare, fs.unlink) and the video processing       *)
(* setTimeout; there it is parked in `inflight` (or `timers`) and resumed  *)
(* by a later step, so other requests interleave exactly at those points.  *)
(* An await on a MemStorage method resolves in the same microtask drain    *)
(* and is not an interleaving point.                                       *)
(*                                                                         *)
(* A handler H is two definitions: HResponse(inputs), the response it      *)
(* sends from the current state (Pending when it parks instead), and the   *)
(* action H(inputs), what it does to the state.  A handler that only reads *)
(* leaves every variable unchanged.                                        *)
(***************************************************************************)
EXTENDS Integers, Sequences, FiniteSets, Bags, TLC

VARIABLES
    users, companyProfiles, creatorProfiles, campaigns, ads, videos, videoAds,
    userId, companyProfileId, creatorProfileId, campaignId, adId, videoId, videoAdId,
    sessions, inflight, timers, client

maps     == <<users, companyProfiles, creatorProfiles, campaigns, ads, videos, videoAds>>
counters == <<userId, companyProfileId, creatorProfileId, campaignId, adId, videoId, videoAdId>>
storage  == <<maps, counters>>
vars     == <<storage, sessions, inflight, timers, client>>

---------------------------------------------------------------------------
(* Bounds of the model. *)

\* users created by register (stored plus in flight)
MaxUsers == 2
\* campaigns, ads and videos created over a behaviour, all kinds together
MaxRecords == 1
\* logins and deletes parked on an await at the same time (registers are
\* bounded by MaxUsers)
MaxInflight == 1
\* records created by direct calls of MemStorage, all kinds together
MaxStored == 2
\* PATCH requests between the browser and the server at the same time
MaxPatches == 2
\* DELETE requests of one kind parked on their unlink at the same time, where
\* deletes are looked at alone
MaxDeletes == 2

---------------------------------------------------------------------------
(* JavaScript values. *)

\* `undefined` where an object is expected (Map.get / Array.find miss)
Undefined == [undefined |-> TRUE]
\* `undefined` in a string-valued field
Undef == "undefined"
\* `undefined` in a number-valued field; ids start at 1, so 0 is no id
NoId == 0
\* new Date()
Now == "now"

\* a falsy string: undefined or ""
Falsy(s) == s = Undef \/ s = ""

\* object spread { ...a, ...b }
Merge(a, b) == [f \in DOMAIN a \cup DOMAIN b |-> IF f \in DOMAIN b THEN b[f] ELSE a[f]]

Min(S) == CHOOSE m \in S : \A n \in S : m <= n

LowerChar(c) ==
    CASE c = "A" -> "a" [] c = "B" -> "b" [] c = "C" -> "c" [] c = "D" -> "d"
      [] c = "E" -> "e" [] c = "F" -> "f" [] c = "G" -> "g" [] c = "H" -> "h"
      [] c = "I" -> "i" [] c = "J" -> "j" [] c = "K" -> "k" [] c = "L" -> "l"
      [] c = "M" -> "m" [] c = "N" -> "n" [] c = "O" -> "o" [] c = "P" -> "p"
      [] c = "Q" -> "q" [] c = "R" -> "r" [] c = "S" -> "s" [] c = "T" -> "t"
      [] c = "U" -> "u" [] c = "V" -> "v" [] c = "W" -> "w" [] c = "X" -> "x"
      [] c = "Y" -> "y" [] c = "Z" -> "z" [] OTHER -> c

\* String.prototype.toLowerCase
RECURSIVE toLowerCase(_)
toLowerCase(s) ==
    IF s = "" THEN ""
    ELSE LowerChar(SubSeq(s, 1, 1)) \o toLowerCase(SubSeq(s, 2, Len(s)))

\* the positions of character c in s
Positions(s, c) == {i \in 1..Len(s) : SubSeq(s, i, i) = c}

\* z.string().email(): one "@", something before it, a dotted domain after it
IsEmail(s) ==
    /\ Cardinality(Positions(s, "@")) = 1
    /\ LET at == Min(Positions(s, "@"))
       IN  /\ at > 1
           /\ \E dot \in Positions(s, ".") : dot > at + 1 /\ dot < Len(s)

\* bcrypt.hash(password, 10) with the salt it drew; the salt is part of the hash
SaltLen == 2
BcryptPrefix == "$2a$10$"
bcryptHash(password, salt) == BcryptPrefix \o salt \o password

\* bcrypt.compare(password, hash): rehash with the salt stored in the hash
bcryptCompare(password, hash) ==
    /\ Len(hash) >= Len(BcryptPrefix) + SaltLen
    /\ bcryptHash(password,
                  SubSeq(hash, Len(BcryptPrefix) + 1, Len(BcryptPrefix) + SaltLen)) = hash

---------------------------------------------------------------------------
(* MemStorage: reads. *)

getUser(id) == IF id \in DOMAIN users THEN users[id] ELSE Undefined

\* Array.find over the map's values, which iterate in insertion (= id) order
getUserByUsername(username) ==
    LET found == {id \in DOMAIN users :
                    toLowerCase(users[id].username) = toLowerCase(username)}
    IN  IF found = {} THEN Undefined ELSE users[Min(found)]

\* a faulty variant: the emails are compared as they are written
getUserByEmailExact(email) ==
    LET found == {id \in DOMAIN users : users[id].email = email}
    IN  IF found = {} THEN Undefined ELSE users[Min(found)]
getUserByEmail(email) ==
    LET found == {id \in DOMAIN users :
                    toLowerCase(users[id].email) = toLowerCase(email)}
    IN  IF found = {} THEN Undefined ELSE users[Min(found)]

getCampaign(id) == IF id \in DOMAIN campaigns THEN campaigns[id] ELSE Undefined
getAd(id)       == IF id \in DOMAIN ads THEN ads[id] ELSE Undefined
getVideo(id)    == IF id \in DOMAIN videos THEN videos[id] ELSE Undefined

\* Array.from(map.values()) restricted to `keys`: the records in insertion (= key) order
RECURSIVE ValuesOf(_, _)
ValuesOf(map, keys) ==
    IF keys = {} THEN <<>>
    ELSE LET k == Min(keys) IN <<map[k]>> \o ValuesOf(map, keys \ {k})

\* a faulty variant: the filter on userId is left out
getCampaignsOfEveryUser(uid) == ValuesOf(campaigns, DOMAIN campaigns)
getCampaignsByUserId(uid) ==
    ValuesOf(campaigns, {id \in DOMAIN campaigns : campaigns[id].userId = uid})
getAdsByUserId(uid) ==
    ValuesOf(ads, {id \in DOMAIN ads : ads[id].userId = uid})
getVideosByUserId(uid) ==
    ValuesOf(videos, {id \in DOMAIN videos : videos[id].userId = uid})

---------------------------------------------------------------------------
(* MemStorage: writes.  create* assigns the counter's value and advances   *)
(* it; update* and delete* are used by callers that have checked the id,   *)
(* and throw (see the callers) when it is absent.                          *)

\* a faulty variant: the entries stored before the one asked for go with it
WithoutUpTo(map, id) == [k \in {j \in DOMAIN map : j > id} |-> map[k]]
\* Map.delete(id)
Without(map, id) == [k \in DOMAIN map \ {id} |-> map[k]]

\* { ...user, id, createdAt: now }
NewUser(user) == Merge(user, [id |-> userId, createdAt |-> Now])
createUser(user) ==
    /\ users' = users @@ (userId :> NewUser(user))
    /\ userId' = userId + 1

NewCompanyProfile(profile) == Merge(profile, [id |-> companyProfileId])
createCompanyProfile(profile) ==
    /\ companyProfiles' = companyProfiles @@ (companyProfileId :> NewCompanyProfile(profile))
    /\ companyProfileId' = companyProfileId + 1

NewCreatorProfile(profile) == Merge(profile, [id |-> creatorProfileId])
createCreatorProfile(profile) ==
    /\ creatorProfiles' = creatorProfiles @@ (creatorProfileId :> NewCreatorProfile(profile))
    /\ creatorProfileId' = creatorProfileId + 1

NewCampaign(campaign) == Merge(campaign, [id |-> campaignId, createdAt |-> Now])
\* a faulty variant: the id is the size of the map plus one
createCampaignBySize(campaign) ==
    /\ campaigns' = (Cardinality(DOMAIN campaigns) + 1 :> NewCampaign(campaign)) @@ campaigns
    /\ campaignId' = campaignId + 1
createCampaign(campaign) ==
    /\ campaigns' = campaigns @@ (campaignId :> NewCampaign(campaign))
    /\ campaignId' = campaignId + 1

\* a faulty variant: the partial replaces the record
UpdatedCampaignReplaced(id, campaignData) == campaignData
\* { ...campaign, ...campaignData }, stored under the key asked for
UpdatedCampaign(id, campaignData) == Merge(campaigns[id], campaignData)
updateCampaign(id, campaignData) ==
    campaigns' = [campaigns EXCEPT ![id] = UpdatedCampaign(id, campaignData)]

deleteCampaign(id) == campaigns' = Without(campaigns, id)

NewAd(ad) == Merge(ad, [id |-> adId, createdAt |-> Now])
createAd(ad) ==
    /\ ads' = ads @@ (adId :> NewAd(ad))
    /\ adId' = adId + 1

\* a faulty variant: a field the record has is not written again
UpdatedAdFirstWins(id, adData) == Merge(adData, ads[id])
UpdatedAd(id, adData) == Merge(ads[id], adData)
updateAd(id, adData) == ads' = [ads EXCEPT ![id] = UpdatedAd(id, adData)]

deleteAd(id) == ads' = Without(ads, id)

\* { ...video, id, createdAt, views: 0, thumbnailPath, processedFilePath, duration: undefined }
NewVideo(video) ==
    Merge(video, [id |-> videoId, createdAt |-> Now, views |-> 0,
                  thumbnailPath |-> Undef, processedFilePath |-> Undef,
                  duration |-> NoId])
createVideo(video) ==
    /\ videos' = videos @@ (videoId :> NewVideo(video))
    /\ videoId' = videoId + 1

UpdatedVideo(id, videoData) == Merge(videos[id], videoData)
updateVideo(id, videoData) == videos' = [videos EXCEPT ![id] = UpdatedVideo(id, videoData)]

deleteVideo(id) == videos' = Without(videos, id)

\* The methods no route calls.
UpdatedUser(id, userData) == Merge(users[id], userData)
updateUser(id, userData) == users' = [users EXCEPT ![id] = UpdatedUser(id, userData)]

deleteUser(id) == users' = Without(users, id)

UpdatedCompanyProfile(id, profileData) == Merge(companyProfiles[id], profileData)
updateCompanyProfile(id, profileData) ==
    companyProfiles' = [companyProfiles EXCEPT ![id] = UpdatedCompanyProfile(id, profileData)]

deleteCompanyProfile(id) == companyProfiles' = Without(companyProfiles, id)

UpdatedCreatorProfile(id, profileData) == Merge(creatorProfiles[id], profileData)
updateCreatorProfile(id, profileData) ==
    creatorProfiles' = [creatorProfiles EXCEPT ![id] = UpdatedCreatorProfile(id, profileData)]

deleteCreatorProfile(id) == creatorProfiles' = Without(creatorProfiles, id)

NewVideoAd(videoAd) == Merge(videoAd, [id |-> videoAdId, createdAt |-> Now])
createVideoAd(videoAd) ==
    /\ videoAds' = videoAds @@ (videoAdId :> NewVideoAd(videoAd))
    /\ videoAdId' = videoAdId + 1

UpdatedVideoAd(id, videoAdData) == Merge(videoAds[id], videoAdData)
updateVideoAd(id, videoAdData) ==
    videoAds' = [videoAds EXCEPT ![id] = UpdatedVideoAd(id, videoAdData)]

deleteVideoAd(id) == videoAds' = Without(videoAds, id)

---------------------------------------------------------------------------
(* MemStorage as its callers see it: create(input), update(id, partial)    *)
(* and delete(id) of each of the seven kinds, with the error update and    *)
(* delete throw for an id that is not in the map.                          *)

Kinds == {"user", "companyProfile", "creatorProfile", "campaign", "ad", "video", "videoAd"}

\* this.users, this.companyProfiles, ... and this.userId, this.companyProfileId, ...
MapOf(kind) ==
    CASE kind = "user" -> users
      [] kind = "companyProfile" -> companyProfiles
      [] kind = "creatorProfile" -> creatorProfiles
      [] kind = "campaign" -> campaigns
      [] kind = "ad" -> ads
      [] kind = "video" -> videos
      [] kind = "videoAd" -> videoAds

CounterOf(kind) ==
    CASE kind = "user" -> userId
      [] kind = "companyProfile" -> companyProfileId
      [] kind = "creatorProfile" -> creatorProfileId
      [] kind = "campaign" -> campaignId
      [] kind = "ad" -> adId
      [] kind = "video" -> videoId
      [] kind = "videoAd" -> videoAdId

\* throw new Error(`... with id ${id} not found`)
NotFound(id) == [error |-> "not found", id |-> id]

\* the maps and the counters of the other kinds stay as they are
OtherMapsUnchanged(kind) ==
    /\ IF kind = "user" THEN TRUE ELSE UNCHANGED users
    /\ IF kind = "companyProfile" THEN TRUE ELSE UNCHANGED companyProfiles
    /\ IF kind = "creatorProfile" THEN TRUE ELSE UNCHANGED creatorProfiles
    /\ IF kind = "campaign" THEN TRUE ELSE UNCHANGED campaigns
    /\ IF kind = "ad" THEN TRUE ELSE UNCHANGED ads
    /\ IF kind = "video" THEN TRUE ELSE UNCHANGED videos
    /\ IF kind = "videoAd" THEN TRUE ELSE UNCHANGED videoAds

OtherCountersUnchanged(kind) ==
    /\ IF kind = "user" THEN TRUE ELSE UNCHANGED userId
    /\ IF kind = "companyProfile" THEN TRUE ELSE UNCHANGED companyProfileId
    /\ IF kind = "creatorProfile" THEN TRUE ELSE UNCHANGED creatorProfileId
    /\ IF kind = "campaign" THEN TRUE ELSE UNCHANGED campaignId
    /\ IF kind = "ad" THEN TRUE ELSE UNCHANGED adId
    /\ IF kind = "video" THEN TRUE ELSE UNCHANGED videoId
    /\ IF kind = "videoAd" THEN TRUE ELSE UNCHANGED videoAdId

\* direct calls may still create records within the model's bound
StoredLeft ==
    (userId - 1) + (companyProfileId - 1) + (creatorProfileId - 1) + (campaignId - 1)
        + (adId - 1) + (videoId - 1) + (videoAdId - 1) < MaxStored

\* create(input): the record returned
CreateResult(kind, input) ==
    CASE kind = "user" -> NewUser(input)
      [] kind = "companyProfile" -> NewCompanyProfile(input)
      [] kind = "creatorProfile" -> NewCreatorProfile(input)
      [] kind = "campaign" -> NewCampaign(input)
      [] kind = "ad" -> NewAd(input)
      [] kind = "video" -> NewVideo(input)
      [] kind = "videoAd" -> NewVideoAd(input)

StorageCreate(kind, input) ==
    /\ StoredLeft
    /\ CASE kind = "user" -> createUser(input)
         [] kind = "companyProfile" -> createCompanyProfile(input)
         [] kind = "creatorProfile" -> createCreatorProfile(input)
         [] kind = "campaign" -> createCampaign(input)
         [] kind = "ad" -> createAd(input)
         [] kind = "video" -> createVideo(input)
         [] kind = "videoAd" -> createVideoAd(input)
    /\ OtherMapsUnchanged(kind)
    /\ OtherCountersUnchanged(kind)
    /\ UNCHANGED <<sessions, inflight, timers>>

\* update(id, partial): the record returned, or the error thrown
UpdateResult(kind, id, partial) ==
    IF id \notin DOMAIN MapOf(kind) THEN NotFound(id)
    ELSE CASE kind = "user" -> UpdatedUser(id, partial)
           [] kind = "companyProfile" -> UpdatedCompanyProfile(id, partial)
           [] kind = "creatorProfile" -> UpdatedCreatorProfile(id, partial)
           [] kind = "campaign" -> UpdatedCampaign(id, partial)
           [] kind = "ad" -> UpdatedAd(id, partial)
           [] kind = "video" -> UpdatedVideo(id, partial)
           [] kind = "videoAd" -> UpdatedVideoAd(id, partial)

StorageUpdate(kind, id, partial) ==
    /\ IF UpdateResult(kind, id, partial) = NotFound(id)
       THEN UNCHANGED maps
       ELSE /\ CASE kind = "user" -> updateUser(id, partial)
                 [] kind = "companyProfile" -> updateCompanyProfile(id, partial)
                 [] kind = "creatorProfile" -> updateCreatorProfile(id, partial)
                 [] kind = "campaign" -> updateCampaign(id, partial)
                 [] kind = "ad" -> updateAd(id, partial)
                 [] kind = "video" -> updateVideo(id, partial)
                 [] kind = "videoAd" -> updateVideoAd(id, partial)
            /\ OtherMapsUnchanged(kind)
    /\ UNCHANGED <<counters, sessions, inflight, timers>>

\* delete(id): nothing is returned, or the error thrown
DeleteResult(kind, id) ==
    IF id \notin DOMAIN MapOf(kind) THEN NotFound(id) ELSE Undefined

StorageDelete(kind, id) ==
    /\ IF DeleteResult(kind, id) = NotFound(id)
       THEN UNCHANGED maps
       ELSE /\ CASE kind = "user" -> deleteUser(id)
                 [] kind = "companyProfile" -> deleteCompanyProfile(id)
                 [] kind = "creatorProfile" -> deleteCreatorProfile(id)
                 [] kind = "campaign" -> deleteCampaign(id)
                 [] kind = "ad" -> deleteAd(id)
                 [] kind = "video" -> deleteVideo(id)
                 [] kind = "videoAd" -> deleteVideoAd(id)
            /\ OtherMapsUnchanged(kind)
    /\ UNCHANGED <<counters, sessions, inflight, timers>>

---------------------------------------------------------------------------
(* Responses, sessions, parked handlers. *)

Response(status, message, body) == [status |-> status, message |-> message, body |-> body]

\* nothing is sent yet: the handler awaits real I/O
Pending == Response(0, "", <<>>)

\* a session without userId: nothing in the store for this cookie
Anonymous == [userId |-> NoId, userType |-> Undef]

\* if (!req.session || !req.session.userId) return 401 -- not taken
Authenticated(sid) == sessions[sid].userId # NoId

NotAuthenticated == Response(401, "Not authenticated", <<>>)

\* validateRequest answers 400 when the body fails the schema
ValidationFailed == Response(400, "Validation failed", <<>>)

\* the handler is parked on its await; `inflight` holds what it resumes
\* with, as a bag: two requests may park the same continuation
Park(continuation) == inflight' = inflight (+) SetToBag({continuation})

Resume(continuation) == inflight' = inflight (-) SetToBag({continuation})

Parked(kind) == {c \in BagToSet(inflight) : c.kind = kind}

\* the number of handlers of this kind that are parked
ParkedCount(kind) == BagCardinality([c \in Parked(kind) |-> inflight[c]])

\* one more login or delete may park within the model's bound
MayPark == BagCardinality(inflight) - ParkedCount("register") < MaxInflight

---------------------------------------------------------------------------
(* Auth routes. *)

UserFields == {"email", "username", "password", "fullName", "userType"}

\* registerUserSchema: insertUserSchema + confirmPassword, refined by equality
registerUserSchema(body) ==
    /\ UserFields \cup {"confirmPassword"} \subseteq DOMAIN body
    /\ body.password = body.confirmPassword

\* loginUserSchema: { email: z.string().email(), password: z.string() }
loginUserSchema(body) ==
    /\ {"email", "password"} \subseteq DOMAIN body
    /\ IsEmail(body.email)

\* the fields the auth routes return: everything but the password
PublicUser(user) ==
    [id |-> user.id, email |-> user.email, username |-> user.username,
     fullName |-> user.fullName, userType |-> user.userType]

\* POST /api/auth/register, up to `await bcrypt.hash`
RegisterResponse(body) ==
    IF ~registerUserSchema(body) THEN ValidationFailed
    ELSE IF getUserByEmail(body.email) # Undefined
      THEN Response(400, "Email already in use", <<>>)
    ELSE IF getUserByUsername(body.username) # Undefined
      THEN Response(400, "Username already taken", <<>>)
    ELSE Pending

Register(sid, body) ==
    /\ IF RegisterResponse(body) = Pending
       THEN /\ (userId - 1) + ParkedCount("register") < MaxUsers
            /\ Park([kind |-> "register", sid |-> sid, body |-> body])
       ELSE UNCHANGED inflight
    /\ UNCHANGED <<storage, sessions, timers>>

\* a faulty variant: the hash is computed and the body is stored as it came
UserToCreateUnhashed(body, hashedPassword) == body
\* what createUser is handed: { ...req.body, password: hashedPassword }
UserToCreate(body, hashedPassword) == Merge(body, [password |-> hashedPassword])

\* the user the parked register creates with this salt
RegisteredUser(c, salt) ==
    NewUser(UserToCreate(c.body, bcryptHash(c.body.password, salt)))

\* a faulty variant: every new user gets a creator profile
CreateProfileAlwaysCreator(body, newUser) ==
    /\ createCreatorProfile([userId |-> newUser.id, bio |-> "", niche |-> "",
                             youtubeChannel |-> ""])
    /\ UNCHANGED <<companyProfiles, companyProfileId>>
\* the profile created for the new user: company, or else creator
CreateProfile(body, newUser) ==
    IF body.userType = "company"
    THEN /\ createCompanyProfile([userId |-> newUser.id, companyName |-> body.fullName,
                                  industry |-> "", website |-> "", description |-> ""])
         /\ UNCHANGED <<creatorProfiles, creatorProfileId>>
    ELSE /\ createCreatorProfile([userId |-> newUser.id, bio |-> "", niche |-> "",
                                  youtubeChannel |-> ""])
         /\ UNCHANGED <<companyProfiles, companyProfileId>>

\* POST /api/auth/register, from the resolution of bcrypt.hash on
RegisterHashedResponse(c, salt) == Response(201, "", PublicUser(RegisteredUser(c, salt)))

RegisterHashed(c, salt) ==
    /\ c \in Parked("register")
    /\ createUser(UserToCreate(c.body, bcryptHash(c.body.password, salt)))
    /\ CreateProfile(c.body, RegisteredUser(c, salt))
    /\ Resume(c)
    /\ UNCHANGED <<campaigns, ads, videos, videoAds,
                   campaignId, adId, videoId, videoAdId, sessions, timers>>

\* POST /api/auth/register when the profile creation after createUser
\* rejects: the catch logs and answers 500.  MemStorage's own create methods
\* never reject; this is the handler over a storage layer that can.
RegisterProfileFailedResponse(c, salt) == Response(500, "Failed to register user", <<>>)

\* a faulty variant: the catch takes the user out of storage again
RegisterProfileFailedRolledBack(c, salt) ==
    /\ c \in Parked("register")
    /\ Resume(c)
    /\ UNCHANGED <<storage, sessions, timers>>
RegisterProfileFailed(c, salt) ==
    /\ c \in Parked("register")
    /\ createUser(UserToCreate(c.body, bcryptHash(c.body.password, salt)))
    /\ Resume(c)
    /\ UNCHANGED <<companyProfiles, creatorProfiles, campaigns, ads, videos, videoAds,
                   companyProfileId, creatorProfileId, campaignId, adId, videoId,
                   videoAdId, sessions, timers>>

\* a faulty variant: an unknown email is told apart from a wrong password
LoginResponseUserNotFound(body) ==
    IF ~loginUserSchema(body) THEN ValidationFailed
    ELSE IF getUserByEmail(body.email) = Undefined
      THEN Response(404, "User not found", <<>>)
    ELSE Pending
\* POST /api/auth/login, up to `await bcrypt.compare`
LoginResponse(body) ==
    IF ~loginUserSchema(body) THEN ValidationFailed
    ELSE IF getUserByEmail(body.email) = Undefined
      THEN Response(401, "Invalid credentials", <<>>)
    ELSE Pending

Login(sid, body) ==
    /\ IF LoginResponse(body) = Pending
       THEN /\ MayPark
            /\ Park([kind |-> "login", sid |-> sid, body |-> body,
                     user |-> getUserByEmail(body.email)])
       ELSE UNCHANGED inflight
    /\ UNCHANGED <<storage, sessions, timers>>

\* POST /api/auth/login, from the resolution of bcrypt.compare on
LoginComparedResponse(c) ==
    IF ~bcryptCompare(c.body.password, c.user.password)
    THEN Response(401, "Invalid credentials", <<>>)
    ELSE Response(200, "", PublicUser(c.user))

\* a faulty variant: the userType is not written to the session
LoggedInWithoutType(user) == [userId |-> user.id, userType |-> Undef]
\* req.session.userId = user.id; req.session.userType = user.userType
LoggedIn(user) == [userId |-> user.id, userType |-> user.userType]

\* The request's own session object is saved when the response ends,
\* whatever happened to the stored session meanwhile.
LoginCompared(c) ==
    /\ c \in Parked("login")
    /\ IF LoginComparedResponse(c).status = 200
       THEN sessions' = [sessions EXCEPT ![c.sid] = LoggedIn(c.user)]
       ELSE UNCHANGED sessions
    /\ Resume(c)
    /\ UNCHANGED <<storage, timers>>

\* POST /api/auth/logout: req.session.destroy, then clearCookie and 200
LogoutResponse(sid) == Response(200, "Logged out successfully", <<>>)

Logout(sid) ==
    /\ sessions' = [sessions EXCEPT ![sid] = Anonymous]
    /\ UNCHANGED <<storage, inflight, timers>>

\* cookie.maxAge passed: the store no longer returns the session, and the
\* next request starts from a session without userId
SessionExpiry(sid) ==
    /\ sessions' = [sessions EXCEPT ![sid] = Anonymous]
    /\ UNCHANGED <<storage, inflight, timers>>

\* GET /api/auth/me
MeResponse(sid) ==
    IF ~Authenticated(sid) THEN NotAuthenticated
    ELSE IF getUser(sessions[sid].userId) = Undefined
      THEN Response(404, "User not found", <<>>)
    ELSE Response(200, "", PublicUser(getUser(sessions[sid].userId)))

Me(sid) == UNCHANGED vars

\* GET /api/auth/status
StatusResponse(sid) ==
    IF Authenticated(sid)
    THEN Response(200, "", [isAuthenticated |-> TRUE, userType |-> sessions[sid].userType])
    ELSE Response(401, "", [isAuthenticated |-> FALSE])

Status(sid) == UNCHANGED vars

---------------------------------------------------------------------------
(* Campaign routes. *)

\* campaigns, ads and videos may still be created within the model's bound
RecordsLeft == (campaignId - 1) + (adId - 1) + (videoId - 1) < MaxRecords

\* insertCampaignSchema: the columns that are notNull and have no default
insertCampaignSchema(body) ==
    {"userId", "name", "status", "budget", "startDate"} \subseteq DOMAIN body

\* a faulty variant: the ownership check is left out
OwnsWhatever(sid, record) == TRUE
\* campaign.userId !== req.session.userId -- not taken
Owns(sid, record) == record.userId = sessions[sid].userId

\* { ...campaign, views: random, performance: random }
EnhancedCampaigns(list, views, performance) ==
    [i \in DOMAIN list |->
        Merge(list[i], [views |-> views, performance |-> performance])]

\* GET /api/campaigns
GetCampaignsResponse(sid, views, performance) ==
    IF ~Authenticated(sid) THEN NotAuthenticated
    ELSE Response(200, "",
                  EnhancedCampaigns(getCampaignsByUserId(sessions[sid].userId),
                                    views, performance))

GetCampaigns(sid) == UNCHANGED vars

\* what createCampaign is handed: { ...req.body, userId: req.session.userId }
CampaignToCreate(sid, body) == Merge(body, [userId |-> sessions[sid].userId])

\* POST /api/campaigns: validateRequest runs before the handler
CreateCampaignResponse(sid, body) ==
    IF ~insertCampaignSchema(body) THEN ValidationFailed
    ELSE IF ~Authenticated(sid) THEN NotAuthenticated
    ELSE Response(201, "", NewCampaign(CampaignToCreate(sid, body)))

CreateCampaign(sid, body) ==
    /\ IF CreateCampaignResponse(sid, body).status = 201
       THEN /\ RecordsLeft
            /\ createCampaign(CampaignToCreate(sid, body))
       ELSE UNCHANGED <<campaigns, campaignId>>
    /\ UNCHANGED <<users, companyProfiles, creatorProfiles, ads, videos, videoAds,
                   userId, companyProfileId, creatorProfileId, adId, videoId, videoAdId,
                   sessions, inflight, timers>>

\* a faulty variant: the record is looked up before the session
RefusalExistenceFirst(sid, record, kind, verb) ==
    IF record = Undefined THEN Response(404, kind \o " not found", <<>>)
    ELSE IF ~Authenticated(sid) THEN NotAuthenticated
    ELSE IF ~Owns(sid, record)
      THEN Response(403, "Not authorized to " \o verb \o " this " \o toLowerCase(kind), <<>>)
    ELSE Pending
\* the checks every /:id route makes before it acts: 401, 404, 403
Refusal(sid, record, kind, verb) ==
    IF ~Authenticated(sid) THEN NotAuthenticated
    ELSE IF record = Undefined THEN Response(404, kind \o " not found", <<>>)
    ELSE IF ~Owns(sid, record)
      THEN Response(403, "Not authorized to " \o verb \o " this " \o toLowerCase(kind), <<>>)
    ELSE Pending

Refused(sid, record) == Refusal(sid, record, "", "") # Pending

\* GET /api/campaigns/:id
GetCampaignResponse(sid, id) ==
    IF Refused(sid, getCampaign(id)) THEN Refusal(sid, getCampaign(id), "Campaign", "access")
    ELSE Response(200, "", getCampaign(id))

GetCampaign(sid, id) == UNCHANGED vars

\* PATCH /api/campaigns/:id: req.body goes to updateCampaign as it came
PatchCampaignResponse(sid, id, body) ==
    IF Refused(sid, getCampaign(id)) THEN Refusal(sid, getCampaign(id), "Campaign", "update")
    ELSE Response(200, "", UpdatedCampaign(id, body))

PatchCampaign(sid, id, body) ==
    /\ IF PatchCampaignResponse(sid, id, body).status = 200
       THEN updateCampaign(id, body)
       ELSE UNCHANGED campaigns
    /\ UNCHANGED <<users, companyProfiles, creatorProfiles, ads, videos, videoAds,
                   counters, sessions, inflight, timers>>

\* DELETE /api/campaigns/:id
DeleteCampaignResponse(sid, id) ==
    IF Refused(sid, getCampaign(id)) THEN Refusal(sid, getCampaign(id), "Campaign", "delete")
    ELSE Response(200, "Campaign deleted successfully", <<>>)

DeleteCampaign(sid, id) ==
    /\ IF DeleteCampaignResponse(sid, id).status = 200
       THEN deleteCampaign(id)
       ELSE UNCHANGED campaigns
    /\ UNCHANGED <<users, companyProfiles, creatorProfiles, ads, videos, videoAds,
                   counters, sessions, inflight, timers>>

---------------------------------------------------------------------------
(* multer: upload.single('file') runs before the upload handlers.  Sizes   *)
(* are in MB.                                                              *)

\* no file part in the form: req.file stays undefined
NoFile == [mimetype |-> Undef, size |-> 0]

\* limits.fileSize: 2 * 1024 * 1024 * 1024 bytes
FileSizeLimit == 2048

\* the size the upload-ad page allows: 100 * 1024 * 1024 bytes
AdSizeLimit == 100

\* a faulty variant: every type of file is let through
fileFilterAnyType(file) == TRUE
\* fileFilter: file.mimetype.startsWith('video/')
fileFilter(file) == Len(file.mimetype) >= 6 /\ SubSeq(file.mimetype, 1, 6) = "video/"

\* multer passes the request on; otherwise it calls next(err) and Express
\* answers 500 without running the handler
MulterAccepts(file) ==
    file = NoFile \/ (fileFilter(file) /\ file.size <= FileSizeLimit)

MulterError == Response(500, "Internal Server Error", <<>>)

DigitValue(c) ==
    CASE c = "0" -> 0 [] c = "1" -> 1 [] c = "2" -> 2 [] c = "3" -> 3 [] c = "4" -> 4
      [] c = "5" -> 5 [] c = "6" -> 6 [] c = "7" -> 7 [] c = "8" -> 8 [] c = "9" -> 9
      [] OTHER -> -1

\* the leading decimal digits of s
RECURSIVE DigitPrefix(_)
DigitPrefix(s) ==
    IF s = "" \/ DigitValue(SubSeq(s, 1, 1)) < 0 THEN ""
    ELSE SubSeq(s, 1, 1) \o DigitPrefix(SubSeq(s, 2, Len(s)))

RECURSIVE DecimalValue(_)
DecimalValue(s) ==
    IF s = "" THEN 0
    ELSE 10 * DecimalValue(SubSeq(s, 1, Len(s) - 1)) + DigitValue(SubSeq(s, Len(s), Len(s)))

\* parseInt(s) on an unsigned decimal string; NaN (no leading digit) is no id
parseInt(s) == IF DigitPrefix(s) = "" THEN NoId ELSE DecimalValue(DigitPrefix(s))

---------------------------------------------------------------------------
(* Ad routes. *)

\* GET /api/ads
GetAdsResponse(sid) ==
    IF ~Authenticated(sid) THEN NotAuthenticated
    ELSE Response(200, "", getAdsByUserId(sessions[sid].userId))

GetAds(sid) == UNCHANGED vars

\* the record handed to createAd
AdToCreate(sid, body, path) ==
    [userId |-> sessions[sid].userId,
     campaignId |-> IF Falsy(body.campaignId) THEN NoId ELSE parseInt(body.campaignId),
     title |-> body.title, description |-> body.description,
     filePath |-> path, duration |-> 30, status |-> "pending"]

\* POST /api/ads/upload; `path` is the name multer's diskStorage generated
UploadAdResponse(sid, file, body, path) ==
    IF ~MulterAccepts(file) THEN MulterError
    ELSE IF ~Authenticated(sid) THEN NotAuthenticated
    ELSE IF file = NoFile THEN Response(400, "No file uploaded", <<>>)
    ELSE Response(201, "", NewAd(AdToCreate(sid, body, path)))

UploadAd(sid, file, body, path) ==
    /\ IF UploadAdResponse(sid, file, body, path).status = 201
       THEN /\ RecordsLeft
            /\ createAd(AdToCreate(sid, body, path))
       ELSE UNCHANGED <<ads, adId>>
    /\ UNCHANGED <<users, companyProfiles, creatorProfiles, campaigns, videos, videoAds,
                   userId, companyProfileId, creatorProfileId, campaignId, videoId,
                   videoAdId, sessions, inflight, timers>>

\* GET /api/ads/:id
GetAdResponse(sid, id) ==
    IF Refused(sid, getAd(id)) THEN Refusal(sid, getAd(id), "Ad", "access")
    ELSE Response(200, "", getAd(id))

GetAd(sid, id) == UNCHANGED vars

\* PATCH /api/ads/:id
PatchAdResponse(sid, id, body) ==
    IF Refused(sid, getAd(id)) THEN Refusal(sid, getAd(id), "Ad", "update")
    ELSE Response(200, "", UpdatedAd(id, body))

PatchAd(sid, id, body) ==
    /\ IF PatchAdResponse(sid, id, body).status = 200
       THEN updateAd(id, body)
       ELSE UNCHANGED ads
    /\ UNCHANGED <<users, companyProfiles, creatorProfiles, campaigns, videos, videoAds,
                   counters, sessions, inflight, timers>>

\* DELETE /api/ads/:id, up to `await fs.unlink(ad.filePath)`; with no
\* filePath there is nothing to await and the record is deleted at once
DeleteAdResponse(sid, id) ==
    IF Refused(sid, getAd(id)) THEN Refusal(sid, getAd(id), "Ad", "delete")
    ELSE IF ~Falsy(getAd(id).filePath) THEN Pending
    ELSE Response(200, "Ad deleted successfully", <<>>)

\* `mayPark`: one more handler may park within the bound in force
DeleteAdWithin(sid, id, mayPark) ==
    /\ IF DeleteAdResponse(sid, id) = Pending
         THEN /\ mayPark
              /\ Park([kind |-> "deleteAd", sid |-> sid, id |-> id])
              /\ UNCHANGED ads
       ELSE IF DeleteAdResponse(sid, id).status = 200
         THEN deleteAd(id) /\ UNCHANGED inflight
       ELSE UNCHANGED <<ads, inflight>>
    /\ UNCHANGED <<users, companyProfiles, creatorProfiles, campaigns, videos, videoAds,
                   counters, sessions, timers>>

DeleteAd(sid, id) == DeleteAdWithin(sid, id, MayPark)

\* a faulty variant: the rejection of fs.unlink reaches the handler's catch
DeleteAdUnlinkedResponseUncaught(c, missing) ==
    IF missing \/ getAd(c.id) = Undefined THEN Response(500, "Failed to delete ad", <<>>)
    ELSE Response(200, "Ad deleted successfully", <<>>)
\* DELETE /api/ads/:id, after the unlink settled; `missing`: the file was not
\* on disk and fs.unlink rejected, which its .catch logs.  storage.deleteAd
\* throws when the ad is gone, and the handler's catch answers 500
DeleteAdUnlinkedResponse(c, missing) ==
    IF getAd(c.id) = Undefined THEN Response(500, "Failed to delete ad", <<>>)
    ELSE Response(200, "Ad deleted successfully", <<>>)

DeleteAdUnlinked(c, missing) ==
    /\ c \in Parked("deleteAd")
    /\ IF DeleteAdUnlinkedResponse(c, missing).status = 200
       THEN deleteAd(c.id)
       ELSE UNCHANGED ads
    /\ Resume(c)
    /\ UNCHANGED <<users, companyProfiles, creatorProfiles, campaigns, videos, videoAds,
                   counters, sessions, timers>>

---------------------------------------------------------------------------
(* Video routes. *)

\* GET /api/videos
GetVideosResponse(sid) ==
    IF ~Authenticated(sid) THEN NotAuthenticated
    ELSE Response(200, "", getVideosByUserId(sessions[sid].userId))

GetVideos(sid) == UNCHANGED vars

\* JSON.parse throws a SyntaxError on this text
JSONparseThrows(text) == text \notin {"{}", "{\"skippable\":true}"}

\* JSON.parse(text), for the texts it accepts
JSONparse(text) ==
    IF text = "{\"skippable\":true}" THEN [skippable |-> TRUE] ELSE <<>>

\* the record handed to createVideo
VideoToCreate(sid, body, path) ==
    [userId |-> sessions[sid].userId, title |-> body.title,
     description |-> body.description, category |-> body.category,
     rawFilePath |-> path, status |-> "processing", adPlacement |-> body.adPlacement,
     adPreferences |-> IF Falsy(body.adPreferences) THEN <<>>
                       ELSE JSONparse(body.adPreferences)]

\* POST /api/videos/upload; `path` is the name multer's diskStorage generated
UploadVideoResponse(sid, file, body, path) ==
    IF ~MulterAccepts(file) THEN MulterError
    ELSE IF ~Authenticated(sid) THEN NotAuthenticated
    ELSE IF file = NoFile THEN Response(400, "No file uploaded", <<>>)
    ELSE IF ~Falsy(body.adPreferences) /\ JSONparseThrows(body.adPreferences)
      THEN Response(500, "Failed to upload video", <<>>)
    ELSE Response(201, "", NewVideo(VideoToCreate(sid, body, path)))

\* The 10 s timer is set after createVideo and captures video.id and the path.
UploadVideo(sid, file, body, path) ==
    /\ IF UploadVideoResponse(sid, file, body, path).status = 201
       THEN /\ RecordsLeft
            /\ createVideo(VideoToCreate(sid, body, path))
            /\ timers' = timers \cup {[videoId |-> videoId, path |-> path]}
       ELSE UNCHANGED <<videos, videoId, timers>>
    /\ UNCHANGED <<users, companyProfiles, creatorProfiles, campaigns, ads, videoAds,
                   userId, companyProfileId, creatorProfileId, campaignId, adId,
                   videoAdId, sessions, inflight>>

\* a faulty variant: the callback writes no thumbnail path
ProcessedWithoutThumbnail(path, duration) ==
    [status |-> "ready", processedFilePath |-> path \o "-processed", duration |-> duration]
\* what the timer callback writes
Processed(path, duration) ==
    [status |-> "ready", processedFilePath |-> path \o "-processed",
     thumbnailPath |-> path \o "-thumbnail", duration |-> duration]

\* a faulty variant: the callback stores its update whether or not the video
\* is there
ProcessingTimerUpsert(t, duration) ==
    /\ t \in timers
    /\ timers' = timers \ {t}
    /\ videos' = [id \in DOMAIN videos \cup {t.videoId} |->
                    IF id # t.videoId THEN videos[id]
                    ELSE IF id \in DOMAIN videos
                      THEN UpdatedVideo(id, Processed(t.path, duration))
                    ELSE Processed(t.path, duration)]
    /\ UNCHANGED <<users, companyProfiles, creatorProfiles, campaigns, ads, videoAds,
                   counters, sessions, inflight>>
\* the setTimeout callback of the upload: updateVideo throws when the video
\* is gone, and the callback's catch logs it
ProcessingTimer(t, duration) ==
    /\ t \in timers
    /\ timers' = timers \ {t}
    /\ IF getVideo(t.videoId) = Undefined
       THEN UNCHANGED videos
       ELSE updateVideo(t.videoId, Processed(t.path, duration))
    /\ UNCHANGED <<users, companyProfiles, creatorProfiles, campaigns, ads, videoAds,
                   counters, sessions, inflight>>

\* GET /api/videos/:id
GetVideoResponse(sid, id) ==
    IF Refused(sid, getVideo(id)) THEN Refusal(sid, getVideo(id), "Video", "access")
    ELSE Response(200, "", getVideo(id))

GetVideo(sid, id) == UNCHANGED vars

\* video.processedFilePath || video.rawFilePath
DownloadUrl(video) ==
    IF ~Falsy(video.processedFilePath) THEN video.processedFilePath ELSE video.rawFilePath

\* a faulty variant: only "ready" videos are served
DownloadVideoResponseReadyOnly(sid, id) ==
    IF Refused(sid, getVideo(id)) THEN Refusal(sid, getVideo(id), "Video", "download")
    ELSE IF getVideo(id).status # "ready"
      THEN Response(400, "Video is not ready for download", <<>>)
    ELSE Response(200, "Download started", [url |-> DownloadUrl(getVideo(id))])
\* GET /api/videos/:id/download
DownloadVideoResponse(sid, id) ==
    IF Refused(sid, getVideo(id)) THEN Refusal(sid, getVideo(id), "Video", "download")
    ELSE IF getVideo(id).status # "ready" /\ getVideo(id).status # "published"
      THEN Response(400, "Video is not ready for download", <<>>)
    ELSE Response(200, "Download started", [url |-> DownloadUrl(getVideo(id))])

DownloadVideo(sid, id) == UNCHANGED vars

\* PATCH /api/videos/:id
PatchVideoResponse(sid, id, body) ==
    IF Refused(sid, getVideo(id)) THEN Refusal(sid, getVideo(id), "Video", "update")
    ELSE Response(200, "", UpdatedVideo(id, body))

PatchVideo(sid, id, body) ==
    /\ IF PatchVideoResponse(sid, id, body).status = 200
       THEN updateVideo(id, body)
       ELSE UNCHANGED videos
    /\ UNCHANGED <<users, companyProfiles, creatorProfiles, campaigns, ads, videoAds,
                   counters, sessions, inflight, timers>>

\* one of the three unlinks of the delete handler is awaited
HasFile(video) ==
    \/ ~Falsy(video.rawFilePath)
    \/ ~Falsy(video.processedFilePath)
    \/ ~Falsy(video.thumbnailPath)

\* DELETE /api/videos/:id, up to the first `await fs.unlink`
DeleteVideoResponse(sid, id) ==
    IF Refused(sid, getVideo(id)) THEN Refusal(sid, getVideo(id), "Video", "delete")
    ELSE IF HasFile(getVideo(id)) THEN Pending
    ELSE Response(200, "Video deleted successfully", <<>>)

DeleteVideoWithin(sid, id, mayPark) ==
    /\ IF DeleteVideoResponse(sid, id) = Pending
         THEN /\ mayPark
              /\ Park([kind |-> "deleteVideo", sid |-> sid, id |-> id])
              /\ UNCHANGED videos
       ELSE IF DeleteVideoResponse(sid, id).status = 200
         THEN deleteVideo(id) /\ UNCHANGED inflight
       ELSE UNCHANGED <<videos, inflight>>
    /\ UNCHANGED <<users, companyProfiles, creatorProfiles, campaigns, ads, videoAds,
                   counters, sessions, timers>>

DeleteVideo(sid, id) == DeleteVideoWithin(sid, id, MayPark)

\* DELETE /api/videos/:id, after the unlinks settled; `missing`: one of the
\* files was not on disk (the paths the processing timer wrote never are)
DeleteVideoUnlinkedResponse(c, missing) ==
    IF getVideo(c.id) = Undefined THEN Response(500, "Failed to delete video", <<>>)
    ELSE Response(200, "Video deleted successfully", <<>>)

DeleteVideoUnlinked(c, missing) ==
    /\ c \in Parked("deleteVideo")
    /\ IF DeleteVideoUnlinkedResponse(c, missing).status = 200
       THEN deleteVideo(c.id)
       ELSE UNCHANGED videos
    /\ Resume(c)
    /\ UNCHANGED <<users, companyProfiles, creatorProfiles, campaigns, ads, videoAds,
                   counters, sessions, timers>>

---------------------------------------------------------------------------
(* PATCH requests on the wire.  Body parsing and the session store hand    *)
(* the request to its handler in a later turn of the event loop, and the   *)
(* response takes its time back: a request is in flight from PatchSent to  *)
(* PatchAnswered, and its handler runs in between, atomically, as          *)
(* PatchHandled.  `status` is 0 until the handler has answered.            *)

Entities == {"campaign", "ad", "video"}

PatchRequest(entity, sid, id, body) ==
    [kind |-> "patch", entity |-> entity, sid |-> sid, id |-> id, body |-> body,
     status |-> 0]

\* the owner's browser sends PATCH /api/<entity>s/:id for a record it was shown
PatchSent(entity, sid, id, body) ==
    /\ ParkedCount("patch") < MaxPatches
    /\ Authenticated(sid)
    /\ id \in DOMAIN MapOf(entity)
    /\ Owns(sid, MapOf(entity)[id])
    /\ Park(PatchRequest(entity, sid, id, body))
    /\ UNCHANGED <<storage, sessions, timers>>

\* what the handler answers the request with, from the current state
PatchResponseOf(c) ==
    CASE c.entity = "campaign" -> PatchCampaignResponse(c.sid, c.id, c.body)
      [] c.entity = "ad" -> PatchAdResponse(c.sid, c.id, c.body)
      [] c.entity = "video" -> PatchVideoResponse(c.sid, c.id, c.body)

\* the handler of a request in flight runs
PatchHandled(c) ==
    /\ c \in Parked("patch")
    /\ c.status = 0
    /\ IF PatchResponseOf(c).status # 200 THEN UNCHANGED <<campaigns, ads, videos>>
       ELSE CASE c.entity = "campaign" ->
                   updateCampaign(c.id, c.body) /\ UNCHANGED <<ads, videos>>
              [] c.entity = "ad" ->
                   updateAd(c.id, c.body) /\ UNCHANGED <<campaigns, videos>>
              [] c.entity = "video" ->
                   updateVideo(c.id, c.body) /\ UNCHANGED <<campaigns, ads>>
    /\ inflight' = (inflight (-) SetToBag({c}))
                     (+) SetToBag({[c EXCEPT !.status = PatchResponseOf(c).status]})
    /\ UNCHANGED <<users, companyProfiles, creatorProfiles, videoAds, counters,
                   sessions, timers>>

\* the response reaches the browser
PatchAnswered(c) ==
    /\ c \in Parked("patch")
    /\ c.status # 0
    /\ Resume(c)
    /\ UNCHANGED <<storage, sessions, timers>>

---------------------------------------------------------------------------
(* Analytics routes.  Every field but the counts is Math.random() scaled;  *)
(* `rnd` stands for the draws of one request.                              *)

\* a faulty variant: the filter on status is left out
CountOfAll(list, status) == Len(list)
\* list.filter(x => x.status === status).length
Count(list, status) == Cardinality({i \in DOMAIN list : list[i].status = status})

\* GET /api/analytics/summary
AnalyticsSummaryResponse(sid, rnd) ==
    LET user == getUser(sessions[sid].userId) IN
    IF ~Authenticated(sid) THEN NotAuthenticated
    ELSE IF user = Undefined \/ user.userType # "company"
      THEN Response(403, "Only company accounts can access this", <<>>)
    ELSE Response(200, "",
             [activeCampaigns |-> Count(getCampaignsByUserId(sessions[sid].userId), "active"),
              campaignGrowth |-> rnd % 20, totalViews |-> rnd % 50000,
              viewsGrowth |-> rnd % 25, budgetUsed |-> rnd % 1000,
              budgetPercentage |-> rnd % 80])

AnalyticsSummary(sid) == UNCHANGED vars

\* GET /api/analytics/creator/summary
CreatorAnalyticsSummaryResponse(sid, rnd) ==
    LET user == getUser(sessions[sid].userId)
        list == getVideosByUserId(sessions[sid].userId)
    IN  IF ~Authenticated(sid) THEN NotAuthenticated
        ELSE IF user = Undefined \/ user.userType # "individual"
          THEN Response(403, "Only creator accounts can access this", <<>>)
        ELSE Response(200, "",
                 [totalVideos |-> Len(list), newVideos |-> rnd % 5,
                  totalViews |-> rnd % 50000, viewsGrowth |-> rnd % 25,
                  totalEarnings |-> rnd % 500, earningsGrowth |-> rnd % 30,
                  processingVideos |-> Count(list, "processing"),
                  processingEta |-> IF Count(list, "processing") > 0
                                    THEN rnd % 30 ELSE -1])

CreatorAnalyticsSummary(sid) == UNCHANGED vars

---------------------------------------------------------------------------
(* The browser: the Router of App.tsx, the Home page and the login and     *)
(* register modals, one tab per session cookie.  `client[sid]` holds the   *)
(* tab's location, the Router's isAuthenticated and userType, and the      *)
(* effects that are due: the Router's checkAuth, which runs on load and    *)
(* after every change of location, and the checkAuthStatus of a Home page  *)
(* that was mounted.  While checkAuth is due the Router shows "Loading".   *)

HomePath    == "/"
CompanyPath == "/dashboard/company"
CreatorPath == "/dashboard/creator"

Paths == {HomePath, CompanyPath, CreatorPath}

\* a tab that has just loaded `path`
Loaded(path) ==
    [location |-> path, isAuthenticated |-> FALSE, userType |-> Undef,
     effects |-> {"checkAuth"}]

\* what the Router renders: the Switch of App.tsx
Page(c) ==
    IF "checkAuth" \in c.effects THEN "Loading"
    ELSE IF c.location = CompanyPath /\ c.isAuthenticated /\ c.userType = "company"
      THEN "CompanyDashboard"
    ELSE IF c.location = CreatorPath /\ c.isAuthenticated /\ c.userType = "creator"
      THEN "CreatorDashboard"
    ELSE "Home"

\* navigate(path): a new location makes the Router's effect due again
Navigate(c, path) ==
    IF path = c.location THEN c
    ELSE [c EXCEPT !.location = path, !.effects = {"checkAuth"}]

\* the Router's effect is done: a Home page that is rendered mounts, and its
\* own effect is due
Rendered(c) ==
    [c EXCEPT !.effects = IF Page([c EXCEPT !.effects = {}]) = "Home"
                          THEN {"checkAuthStatus"} ELSE {}]

\* Router.checkAuth: where it redirects an authenticated tab that is on "/"
RouterRedirect(userType) ==
    IF userType = "company" THEN CompanyPath
    ELSE IF userType = "creator" THEN CreatorPath
    ELSE HomePath

RouterCheckAuth(sid) ==
    LET c   == client[sid]
        res == StatusResponse(sid)
        checked ==
            IF res.status = 200
            THEN [c EXCEPT !.isAuthenticated = res.body.isAuthenticated,
                           !.userType = res.body.userType]
            ELSE [c EXCEPT !.isAuthenticated = FALSE, !.userType = Undef]
    IN  /\ "checkAuth" \in c.effects
        /\ client' = [client EXCEPT ![sid] =
              IF res.status = 200 /\ res.body.isAuthenticated /\ c.location = HomePath
                   /\ RouterRedirect(res.body.userType) # HomePath
              THEN Navigate(checked, RouterRedirect(res.body.userType))
              ELSE Rendered(checked)]
        /\ UNCHANGED <<storage, sessions, inflight, timers>>

\* Home.checkAuthStatus: where it sends a tab whose session is authenticated
HomeRedirect(userType, location) ==
    IF userType = "company" THEN CompanyPath
    ELSE IF userType = "individual" THEN CreatorPath
    ELSE location

HomeCheckAuthStatus(sid) ==
    LET c   == client[sid]
        res == StatusResponse(sid)
        done == [c EXCEPT !.effects = {}]
    IN  /\ "checkAuthStatus" \in c.effects
        /\ client' = [client EXCEPT ![sid] =
              IF res.status = 200
              THEN Navigate(done, HomeRedirect(res.body.userType, c.location))
              ELSE done]
        /\ UNCHANGED <<storage, sessions, inflight, timers>>

\* the user opens or reloads a path
Load(sid, path) ==
    /\ client' = [client EXCEPT ![sid] = Loaded(path)]
    /\ UNCHANGED <<storage, sessions, inflight, timers>>

\* the landing page is shown, with its modals
ShowsLanding(sid) == Page(client[sid]) = "Home" /\ client[sid].effects = {}

\* RegisterModal.onSubmit, up to the answer of POST /api/auth/register
RegisterModalOnSubmit(sid, body) ==
    /\ ShowsLanding(sid)
    /\ Register(sid, body)
    /\ UNCHANGED client

\* LoginModal.onSubmit (and the login the register modal goes on with), up
\* to the answer of POST /api/auth/login
LoginModalOnSubmit(sid, body) ==
    /\ ShowsLanding(sid)
    /\ Login(sid, body)
    /\ UNCHANGED client

\* ... and from the answer on: "company" goes to the company dashboard and
\* every other userType to the creator dashboard
ModalRedirect(userType) == IF userType = "company" THEN CompanyPath ELSE CreatorPath

LoginModalResolved(c) ==
    /\ LoginCompared(c)
    /\ client' = [client EXCEPT ![c.sid] =
          IF LoginComparedResponse(c).status = 200
          THEN Navigate(@, ModalRedirect(c.user.userType))
          ELSE @]

\* the logout button of a dashboard: POST /api/auth/logout, then navigate("/")
DashboardLogout(sid) ==
    /\ Page(client[sid]) \in {"CompanyDashboard", "CreatorDashboard"}
    /\ Logout(sid)
    /\ client' = [client EXCEPT ![sid] = Navigate(@, HomePath)]

---------------------------------------------------------------------------
(* The inputs the requests are drawn from. *)

SessionIds == {"sidA", "sidB"}

RegisterBody(email, username, password, confirmPassword, userType) ==
    [email |-> email, username |-> username, password |-> password,
     confirmPassword |-> confirmPassword, fullName |-> "Full Name", userType |-> userType]

Alice == RegisterBody("a@x.io", "alice", "pw-a", "pw-a", "company")
Bob   == RegisterBody("b@x.io", "bob", "pw-b", "pw-b", "individual")

\* Alice, then: her email in another case under a new username and with a
\* userType that is neither role, her username in another case under a new
\* email, and a body whose confirmPassword differs
RegisterBodies ==
    {Alice,
     RegisterBody("A@X.IO", "carol", "pw-b", "pw-b", "creator"),
     RegisterBody("c@x.io", "ALICE", "pw-a", "pw-a", "individual"),
     RegisterBody("d@x.io", "dave", "pw-a", "pw-b", "company")}

\* the salts bcrypt.hash draws
Salts == {"s1"}

LoginBody(email, password) == [email |-> email, password |-> password]

\* Alice's own login, then: her email in another case, the wrong password,
\* an email nobody registered, and a string that is no email
LoginBodies ==
    {LoginBody("a@x.io", "pw-a"), LoginBody("A@X.IO", "pw-a"),
     LoginBody("a@x.io", "pw-b"), LoginBody("nobody@x.io", "pw-a"),
     LoginBody("not-an-email", "pw-a")}

CampaignBody(uid, status) ==
    [userId |-> uid, name |-> "Launch", status |-> status, budget |-> "100",
     startDate |-> "2025-01-01"]

\* a valid body (its userId names somebody) and one without a name
CampaignBodies ==
    {CampaignBody(2, "active"),
     [userId |-> 1, status |-> "active", budget |-> "100", startDate |-> "2025-01-01"]}

\* PATCH bodies are not validated: a status, and another owner
CampaignPatches == {[status |-> "completed"], [userId |-> 2]}
AdPatches       == {[status |-> "approved"]}
VideoPatches    == {[status |-> "published"]}

\* a clip, a PDF, a clip over the size limit, no file at all, a clip over
\* the 100 MB the upload-ad page allows, and a picture
Files ==
    {[mimetype |-> "video/mp4", size |-> 50], [mimetype |-> "application/pdf", size |-> 1],
     [mimetype |-> "video/mp4", size |-> 3000], NoFile,
     [mimetype |-> "video/mp4", size |-> 500], [mimetype |-> "image/png", size |-> 1]}

FilePaths == {"uploads/videos/file-1.mp4"}

AdForms == {[title |-> "Spot", description |-> Undef, campaignId |-> "1"]}

VideoForm(adPreferences) ==
    [title |-> "Clip", description |-> Undef, category |-> "tech",
     adPlacement |-> "pre-roll", adPreferences |-> adPreferences]

VideoForms == {VideoForm("{\"skippable\":true}"), VideoForm("{oops")}

\* Math.floor(Math.random() * 600) + 60
Durations == {60, 659}

RandomDraws == {0, 12345}

RecordIds == 1..MaxRecords

\* the bodies a browser patches with: two fields, and one of the two again;
\* for ads also a body that names an id
PatchBodies(entity) ==
    CASE entity = "campaign" -> {[status |-> "paused", budget |-> "5"], [status |-> "completed"]}
      [] entity = "ad" -> {[status |-> "approved", title |-> "Spot 2"], [status |-> "rejected"],
                           [id |-> 2]}
      [] entity = "video" -> {[adPlacement |-> "mid-roll", title |-> "Clip 2"],
                              [adPlacement |-> "post-roll"]}

\* what a direct caller hands to create: the first user and the records
\* that name it, the first campaign, the first video and the first ad
StorageInput(kind) ==
    CASE kind = "user" ->
           [email |-> "a@x.io", username |-> "alice", password |-> "$2a$10$s1pw-a",
            fullName |-> "Full Name", userType |-> "company"]
      [] kind = "companyProfile" ->
           [userId |-> 1, companyName |-> "Full Name", industry |-> "", website |-> "",
            description |-> ""]
      [] kind = "creatorProfile" ->
           [userId |-> 1, bio |-> "", niche |-> "", youtubeChannel |-> ""]
      [] kind = "campaign" ->
           [userId |-> 1, name |-> "Launch", status |-> "active", budget |-> "100",
            startDate |-> "2025-01-01"]
      [] kind = "ad" ->
           [userId |-> 1, campaignId |-> 1, title |-> "Spot", description |-> Undef,
            filePath |-> "uploads/videos/file-1.mp4", duration |-> 30, status |-> "pending"]
      [] kind = "video" ->
           [userId |-> 1, title |-> "Clip", description |-> Undef, category |-> "tech",
            rawFilePath |-> "uploads/videos/file-1.mp4", status |-> "processing",
            adPlacement |-> "pre-roll", adPreferences |-> <<>>]
      [] kind = "videoAd" ->
           [videoId |-> 1, adId |-> 1, placementTime |-> 0, views |-> 0, clicks |-> 0]

\* the partials a direct caller hands to update: one field, and two
StoragePartials(kind) ==
    CASE kind = "user" -> {[fullName |-> "New Name"], [fullName |-> "N", userType |-> "individual"]}
      [] kind = "companyProfile" -> {[industry |-> "tech"]}
      [] kind = "creatorProfile" -> {[niche |-> "games"]}
      [] kind = "campaign" -> {[status |-> "completed"], [status |-> "paused", budget |-> "5"]}
      [] kind = "ad" -> {[status |-> "approved"]}
      [] kind = "video" -> {[status |-> "published"]}
      [] kind = "videoAd" -> {[views |-> 1]}

\* the ids a direct caller can name: those given out, and one that is not
StorageIds == 1..(MaxStored + 1)

---------------------------------------------------------------------------
(* The state after construction, and the specifications. *)

Init ==
    /\ users = <<>> /\ companyProfiles = <<>> /\ creatorProfiles = <<>>
    /\ campaigns = <<>> /\ ads = <<>> /\ videos = <<>> /\ videoAds = <<>>
    /\ userId = 1 /\ companyProfileId = 1 /\ creatorProfileId = 1
    /\ campaignId = 1 /\ adId = 1 /\ videoId = 1 /\ videoAdId = 1
    /\ sessions = [sid \in SessionIds |-> Anonymous]
    /\ inflight = EmptyBag
    /\ timers = {}
    /\ client = [sid \in SessionIds |-> Loaded(HomePath)]

\* the auth routes; a register or login request is a <<session, body>> pair
AuthRoutes(registrations, salts, logins) ==
    \/ \E r \in registrations : Register(r[1], r[2]) /\ UNCHANGED client
    \/ \E c \in BagToSet(inflight), salt \in salts :
          RegisterHashed(c, salt) /\ UNCHANGED client
    \/ \E l \in logins : Login(l[1], l[2]) /\ UNCHANGED client
    \/ \E c \in BagToSet(inflight) : LoginCompared(c) /\ UNCHANGED client
    \/ \E sid \in SessionIds : Logout(sid) /\ UNCHANGED client
    \/ \E sid \in SessionIds : SessionExpiry(sid) /\ UNCHANGED client
    \/ \E sid \in SessionIds : Me(sid) /\ UNCHANGED client
    \/ \E sid \in SessionIds : Status(sid) /\ UNCHANGED client

CampaignRoutes(bodies, patches) ==
    \/ \E sid \in SessionIds : GetCampaigns(sid) /\ UNCHANGED client
    \/ \E sid \in SessionIds, body \in bodies : CreateCampaign(sid, body) /\ UNCHANGED client
    \/ \E sid \in SessionIds, id \in RecordIds : GetCampaign(sid, id) /\ UNCHANGED client
    \/ \E sid \in SessionIds, id \in RecordIds, body \in patches :
          PatchCampaign(sid, id, body) /\ UNCHANGED client
    \/ \E sid \in SessionIds, id \in RecordIds : DeleteCampaign(sid, id) /\ UNCHANGED client

AdRoutes(files, patches) ==
    \/ \E sid \in SessionIds : GetAds(sid) /\ UNCHANGED client
    \/ \E sid \in SessionIds, file \in files, body \in AdForms, path \in FilePaths :
          UploadAd(sid, file, body, path) /\ UNCHANGED client
    \/ \E sid \in SessionIds, id \in RecordIds : GetAd(sid, id) /\ UNCHANGED client
    \/ \E sid \in SessionIds, id \in RecordIds, body \in patches :
          PatchAd(sid, id, body) /\ UNCHANGED client
    \/ \E sid \in SessionIds, id \in RecordIds : DeleteAd(sid, id) /\ UNCHANGED client
    \/ \E c \in BagToSet(inflight), missing \in BOOLEAN :
          DeleteAdUnlinked(c, missing) /\ UNCHANGED client

VideoRoutes(files, forms, patches, durations) ==
    \/ \E sid \in SessionIds : GetVideos(sid) /\ UNCHANGED client
    \/ \E sid \in SessionIds, file \in files, body \in forms, path \in FilePaths :
          UploadVideo(sid, file, body, path) /\ UNCHANGED client
    \/ \E t \in timers, duration \in durations :
          ProcessingTimer(t, duration) /\ UNCHANGED client
    \/ \E sid \in SessionIds, id \in RecordIds : GetVideo(sid, id) /\ UNCHANGED client
    \/ \E sid \in SessionIds, id \in RecordIds : DownloadVideo(sid, id) /\ UNCHANGED client
    \/ \E sid \in SessionIds, id \in RecordIds, body \in patches :
          PatchVideo(sid, id, body) /\ UNCHANGED client
    \/ \E sid \in SessionIds, id \in RecordIds : DeleteVideo(sid, id) /\ UNCHANGED client
    \/ \E c \in BagToSet(inflight), missing \in BOOLEAN :
          DeleteVideoUnlinked(c, missing) /\ UNCHANGED client

AnalyticsRoutes ==
    \/ \E sid \in SessionIds : AnalyticsSummary(sid) /\ UNCHANGED client
    \/ \E sid \in SessionIds : CreatorAnalyticsSummary(sid) /\ UNCHANGED client

\* the registrations whose body is not already on its way through bcrypt.hash
NotInFlight(registrations) ==
    {r \in registrations : \A c \in Parked("register") : c.body # r[2]}

\* The whole server with two clients: Alice, a company, on sidA and Bob, a
\* creator, on sidB, each registering and logging in as itself, and neither
\* sending its registration again while the first one is in flight.
Next ==
    \/ AuthRoutes(NotInFlight({<<"sidA", Alice>>, <<"sidB", Bob>>}), Salts,
                  {<<"sidA", LoginBody("a@x.io", "pw-a")>>,
                   <<"sidB", LoginBody("b@x.io", "pw-b")>>})
    \/ CampaignRoutes(CampaignBodies, CampaignPatches)
    \/ AdRoutes(Files, AdPatches)
    \/ VideoRoutes(Files, VideoForms, VideoPatches, Durations)
    \/ AnalyticsRoutes

Spec == Init /\ [][Next]_vars

\* The auth routes alone: any client sends any body.
NextAuth ==
    AuthRoutes(SessionIds \X RegisterBodies, Salts, SessionIds \X LoginBodies)

SpecAuth == Init /\ [][NextAuth]_vars

\* The auth routes as the browsers of Alice and Bob use them.
NextClient ==
    \/ \E sid \in SessionIds, path \in Paths : Load(sid, path)
    \/ \E sid \in SessionIds : RouterCheckAuth(sid)
    \/ \E sid \in SessionIds : HomeCheckAuthStatus(sid)
    \/ \E r \in NotInFlight({<<"sidA", Alice>>, <<"sidB", Bob>>}) :
          RegisterModalOnSubmit(r[1], r[2])
    \/ \E c \in BagToSet(inflight), salt \in Salts :
          RegisterHashed(c, salt) /\ UNCHANGED client
    \/ \E l \in {<<"sidA", LoginBody("a@x.io", "pw-a")>>,
                  <<"sidB", LoginBody("b@x.io", "pw-b")>>} :
          LoginModalOnSubmit(l[1], l[2])
    \/ \E c \in BagToSet(inflight) : LoginModalResolved(c)
    \/ \E sid \in SessionIds : DashboardLogout(sid)
    \/ \E sid \in SessionIds : SessionExpiry(sid) /\ UNCHANGED client

SpecClient == Init /\ [][NextClient]_vars

\* The auth routes of Alice and Bob over a storage layer whose profile
\* creation may reject.
NextFaults ==
    \/ AuthRoutes(NotInFlight({<<"sidA", Alice>>, <<"sidB", Bob>>}), Salts,
                  {<<"sidA", LoginBody("a@x.io", "pw-a")>>,
                   <<"sidB", LoginBody("b@x.io", "pw-b")>>})
    \/ \E c \in BagToSet(inflight), salt \in Salts :
          RegisterProfileFailed(c, salt) /\ UNCHANGED client

SpecFaults == Init /\ [][NextFaults]_vars

\* Alice, registered and logged in, creates records and patches them from a
\* browser that does not wait for one answer before it sends the next request.
NextPatch ==
    \/ \E r \in NotInFlight({<<"sidA", Alice>>}) : Register(r[1], r[2]) /\ UNCHANGED client
    \/ \E c \in BagToSet(inflight), salt \in Salts :
          RegisterHashed(c, salt) /\ UNCHANGED client
    \/ Login("sidA", LoginBody("a@x.io", "pw-a")) /\ UNCHANGED client
    \/ \E c \in BagToSet(inflight) : LoginCompared(c) /\ UNCHANGED client
    \/ \E body \in CampaignBodies : CreateCampaign("sidA", body) /\ UNCHANGED client
    \/ \E body \in AdForms, path \in FilePaths :
          UploadAd("sidA", [mimetype |-> "video/mp4", size |-> 50], body, path)
            /\ UNCHANGED client
    \/ \E body \in VideoForms, path \in FilePaths :
          UploadVideo("sidA", [mimetype |-> "video/mp4", size |-> 50], body, path)
            /\ UNCHANGED client
    \/ \E t \in timers, duration \in Durations :
          ProcessingTimer(t, duration) /\ UNCHANGED client
    \/ \E entity \in Entities : \E id \in RecordIds, body \in PatchBodies(entity) :
          PatchSent(entity, "sidA", id, body) /\ UNCHANGED client
    \/ \E c \in BagToSet(inflight) : PatchHandled(c) /\ UNCHANGED client
    \/ \E c \in BagToSet(inflight) : PatchAnswered(c) /\ UNCHANGED client

SpecPatch == Init /\ [][NextPatch]_vars

\* Alice and Bob upload ads and videos and delete them from browsers that
\* do not wait for the answer before they ask again.
NextDeletes ==
    \/ AuthRoutes(NotInFlight({<<"sidA", Alice>>, <<"sidB", Bob>>}), Salts,
                  {<<"sidA", LoginBody("a@x.io", "pw-a")>>,
                   <<"sidB", LoginBody("b@x.io", "pw-b")>>})
    \/ \E sid \in SessionIds, body \in AdForms, path \in FilePaths :
          UploadAd(sid, [mimetype |-> "video/mp4", size |-> 50], body, path)
            /\ UNCHANGED client
    \/ \E sid \in SessionIds, body \in VideoForms, path \in FilePaths :
          UploadVideo(sid, [mimetype |-> "video/mp4", size |-> 50], body, path)
            /\ UNCHANGED client
    \/ \E t \in timers, duration \in Durations :
          ProcessingTimer(t, duration) /\ UNCHANGED client
    \/ \E sid \in SessionIds, id \in RecordIds :
          DeleteAdWithin(sid, id, ParkedCount("deleteAd") < MaxDeletes) /\ UNCHANGED client
    \/ \E c \in BagToSet(inflight), missing \in BOOLEAN :
          DeleteAdUnlinked(c, missing) /\ UNCHANGED client
    \/ \E sid \in SessionIds, id \in RecordIds :
          DeleteVideoWithin(sid, id, ParkedCount("deleteVideo") < MaxDeletes)
            /\ UNCHANGED client
    \/ \E c \in BagToSet(inflight), missing \in BOOLEAN :
          DeleteVideoUnlinked(c, missing) /\ UNCHANGED client

SpecDeletes == Init /\ [][NextDeletes]_vars

\* MemStorage alone, called directly.
NextStorage ==
    \/ \E kind \in Kinds : StorageCreate(kind, StorageInput(kind)) /\ UNCHANGED client
    \/ \E kind \in Kinds : \E id \in StorageIds, partial \in StoragePartials(kind) :
          StorageUpdate(kind, id, partial) /\ UNCHANGED client
    \/ \E kind \in Kinds, id \in StorageIds : StorageDelete(kind, id) /\ UNCHANGED client

SpecStorage == Init /\ [][NextStorage]_vars

\* The whole server, with the event loop running every timer that is due:
\* a processing timer that was set does fire.
SpecTimers ==
    Spec /\ WF_vars(\E t \in timers, duration \in Durations :
                        ProcessingTimer(t, duration) /\ UNCHANGED client)

---------------------------------------------------------------------------
(* Properties of the per-entity and list routes, under Spec. *)

\* the ids a request can name: NaN, the ids storage may have given out, and
\* one it has not
RequestIds == {NoId} \cup RecordIds \cup {MaxRecords + 1}

\* the session is authenticated as somebody other than the record's owner
OtherOwner(sid, record) ==
    /\ Authenticated(sid)
    /\ record # Undefined
    /\ record.userId # sessions[sid].userId

\* the statuses the per-entity routes answer (sid, id) with, on their first step
CampaignStatuses(sid, id) ==
    {GetCampaignResponse(sid, id).status, DeleteCampaignResponse(sid, id).status}
      \cup {PatchCampaignResponse(sid, id, body).status : body \in CampaignPatches}

AdStatuses(sid, id) ==
    {GetAdResponse(sid, id).status, DeleteAdResponse(sid, id).status}
      \cup {PatchAdResponse(sid, id, body).status : body \in AdPatches}

VideoStatuses(sid, id) ==
    {GetVideoResponse(sid, id).status, DownloadVideoResponse(sid, id).status,
     DeleteVideoResponse(sid, id).status}
      \cup {PatchVideoResponse(sid, id, body).status : body \in VideoPatches}

NonOwnerGets403 ==
    \A sid \in SessionIds, id \in RequestIds :
        /\ OtherOwner(sid, getCampaign(id)) => CampaignStatuses(sid, id) = {403}
        /\ OtherOwner(sid, getAd(id)) => AdStatuses(sid, id) = {403}
        /\ OtherOwner(sid, getVideo(id)) => VideoStatuses(sid, id) = {403}

\* a step that changes anything is no PATCH or DELETE of a non-owner
NonOwnerChangesNothing ==
    \/ UNCHANGED vars
    \/ \A sid \in SessionIds, id \in RequestIds :
          /\ OtherOwner(sid, getCampaign(id)) =>
                /\ ~DeleteCampaign(sid, id)
                /\ \A body \in CampaignPatches : ~PatchCampaign(sid, id, body)
          /\ OtherOwner(sid, getAd(id)) =>
                /\ ~DeleteAd(sid, id)
                /\ \A body \in AdPatches : ~PatchAd(sid, id, body)
          /\ OtherOwner(sid, getVideo(id)) =>
                /\ ~DeleteVideo(sid, id)
                /\ \A body \in VideoPatches : ~PatchVideo(sid, id, body)

\* C1: a session whose userId differs from the userId of a stored campaign, ad
\* or video gets 403 from GET, PATCH and DELETE /:id and from the video
\* download, and the PATCH and the DELETE leave the record, all of storage and
\* the parked handlers as they were (the GETs write nothing).
NonOwnerIsRefused == []NonOwnerGets403 /\ [][NonOwnerChangesNothing]_vars

\* a "ready" video and a session authenticated as another user than its owner
NonOwnerMeetsRecord ==
    \E sid \in SessionIds, id \in DOMAIN videos :
        /\ OtherOwner(sid, videos[id])
        /\ videos[id].status = "ready"
        /\ videos[id].userId \in DOMAIN users

\* C2: on every per-entity route a request without a session userId gets 401
\* whether or not the id is stored, an authenticated request for an id that is
\* not stored gets 404, and 403 goes to authenticated requests for a stored
\* record of another owner and to no other request; the owner gets none of
\* the three.
ChecksInOrder ==
    \A sid \in SessionIds, id \in RequestIds :
        LET answers == <<CampaignStatuses(sid, id), AdStatuses(sid, id),
                         VideoStatuses(sid, id)>>
            records == <<getCampaign(id), getAd(id), getVideo(id)>>
        IN  \A k \in 1..3 :
                /\ ~Authenticated(sid) => answers[k] = {401}
                /\ Authenticated(sid) /\ records[k] = Undefined => answers[k] = {404}
                /\ 403 \in answers[k] => OtherOwner(sid, records[k])
                /\ OtherOwner(sid, records[k]) => answers[k] = {403}
                /\ (Authenticated(sid) /\ records[k] # Undefined
                      /\ ~OtherOwner(sid, records[k]))
                     => answers[k] \cap {401, 403, 404} = {}

\* one session without userId and one authenticated; a stored ad of a user
\* other than the authenticated one, and an ad id that is not stored
AllThreeRefusalsOccur ==
    \E anon \in SessionIds, sid \in SessionIds, id \in RequestIds, absent \in RequestIds :
        /\ ~Authenticated(anon)
        /\ OtherOwner(sid, getAd(id))
        /\ getAd(absent) = Undefined

\* the answers of the non-auth routes to `sid`, over the bodies, files and
\* ids a request can carry
NonAuthStatuses(sid) ==
    UNION {CampaignStatuses(sid, id) \cup AdStatuses(sid, id) \cup VideoStatuses(sid, id) :
              id \in RequestIds}
      \cup {GetCampaignsResponse(sid, 0, 0).status, GetAdsResponse(sid).status,
            GetVideosResponse(sid).status, AnalyticsSummaryResponse(sid, 0).status,
            CreatorAnalyticsSummaryResponse(sid, 0).status}
      \cup {CreateCampaignResponse(sid, body).status : body \in CampaignBodies}
      \cup {UploadAdResponse(sid, file, body, path).status :
              file \in Files, body \in AdForms, path \in FilePaths}
      \cup {UploadVideoResponse(sid, file, body, path).status :
              file \in Files, body \in VideoForms, path \in FilePaths}

\* C3: every non-auth route answers a request that carries no session userId
\* with 401, whatever its body or file.  (Refuted: POST /api/campaigns
\* validates the body first and answers 400, and the upload routes run multer
\* first, whose rejection of the file is answered 500.)
UnauthenticatedGets401 ==
    \A sid \in SessionIds : ~Authenticated(sid) => NonAuthStatuses(sid) = {401}

\* the part of C3 that holds: a step that changes anything is no request
\* without session userId to a route that writes
UnauthenticatedChangesNothing ==
    \/ UNCHANGED vars
    \/ \A sid \in SessionIds : ~Authenticated(sid) =>
          /\ \A body \in CampaignBodies : ~CreateCampaign(sid, body)
          /\ \A file \in Files, path \in FilePaths :
                /\ \A body \in AdForms : ~UploadAd(sid, file, body, path)
                /\ \A body \in VideoForms : ~UploadVideo(sid, file, body, path)
          /\ \A id \in RequestIds :
                /\ ~DeleteCampaign(sid, id)
                /\ ~DeleteAd(sid, id)
                /\ ~DeleteVideo(sid, id)
                /\ \A body \in CampaignPatches : ~PatchCampaign(sid, id, body)
                /\ \A body \in AdPatches : ~PatchAd(sid, id, body)
                /\ \A body \in VideoPatches : ~PatchVideo(sid, id, body)

UnauthenticatedWritesNothing == [][UnauthenticatedChangesNothing]_vars

\* the keys of the records of `map` whose userId is uid
OwnKeys(map, uid) == {id \in DOMAIN map : map[id].userId = uid}

Range(list) == {list[i] : i \in DOMAIN list}

\* C4: the three list routes return exactly the stored records whose userId
\* is the session's userId, each once: no record of another user is in the
\* list and no record of the requester is missing (a campaign is listed with
\* the two drawn fields views and performance added).
ListsAreExactlyOwnRecords ==
    \A sid \in SessionIds : Authenticated(sid) =>
        LET uid == sessions[sid].userId IN
        /\ \A views \in RandomDraws, performance \in RandomDraws :
              LET r == GetCampaignsResponse(sid, views, performance) IN
              /\ r.status = 200
              /\ Len(r.body) = Cardinality(OwnKeys(campaigns, uid))
              /\ Range(r.body) =
                    {Merge(campaigns[id], [views |-> views, performance |-> performance]) :
                        id \in OwnKeys(campaigns, uid)}
        /\ GetAdsResponse(sid).status = 200
        /\ Len(GetAdsResponse(sid).body) = Cardinality(OwnKeys(ads, uid))
        /\ Range(GetAdsResponse(sid).body) = {ads[id] : id \in OwnKeys(ads, uid)}
        /\ GetVideosResponse(sid).status = 200
        /\ Len(GetVideosResponse(sid).body) = Cardinality(OwnKeys(videos, uid))
        /\ Range(GetVideosResponse(sid).body) = {videos[id] : id \in OwnKeys(videos, uid)}

\* a stored campaign, the session of its owner and the session of another user
OwnerAndStrangerListCampaigns ==
    \E sid \in SessionIds, other \in SessionIds, id \in DOMAIN campaigns :
        /\ Authenticated(sid)
        /\ campaigns[id].userId = sessions[sid].userId
        /\ OtherOwner(other, campaigns[id])

---------------------------------------------------------------------------
(* Properties of the auth routes, under SpecAuth. *)

\* a stored user has this email, or this username, ignoring case
EmailTaken(email) ==
    \E id \in DOMAIN users : toLowerCase(users[id].email) = toLowerCase(email)
UsernameTaken(username) ==
    \E id \in DOMAIN users : toLowerCase(users[id].username) = toLowerCase(username)

Taken(body) == EmailTaken(body.email) \/ UsernameTaken(body.username)

DuplicateGets400 ==
    \A body \in RegisterBodies : Taken(body) => RegisterResponse(body).status = 400

\* a step that changes anything is no register with a taken email or username
DuplicateCreatesNothing ==
    \/ UNCHANGED vars
    \/ \A sid \in SessionIds, body \in RegisterBodies :
          Taken(body) => ~Register(sid, body)

\* C5: a register request whose email or username equals, ignoring case, that
\* of a stored user is answered 400, and it creates no user and no profile
\* and leaves nothing behind that would create one later.
DuplicateIsRefused == []DuplicateGets400 /\ [][DuplicateCreatesNothing]_vars

\* a valid register body with a stored user's email in another case and a
\* username nobody has
SameEmailOtherUsername ==
    \E body \in RegisterBodies :
        /\ registerUserSchema(body)
        /\ EmailTaken(body.email)
        /\ \A id \in DOMAIN users : users[id].email # body.email
        /\ ~UsernameTaken(body.username)

\* C6: in every reachable state no two stored users have emails that are
\* equal ignoring case and no two have usernames that are equal ignoring
\* case.  (Refuted: two registers that are both parked on bcrypt.hash have
\* both passed the duplicate check.)
UsersAreUnique ==
    \A i \in DOMAIN users, j \in DOMAIN users : i # j =>
        /\ toLowerCase(users[i].email) # toLowerCase(users[j].email)
        /\ toLowerCase(users[i].username) # toLowerCase(users[j].username)

UniqueRegisterGoesOn ==
    \A body \in RegisterBodies :
        (registerUserSchema(body) /\ ~Taken(body)) => RegisterResponse(body) = Pending

RegisterAnswers201 ==
    \A c \in Parked("register"), salt \in Salts :
        LET r == RegisterHashedResponse(c, salt) IN
        /\ r.status = 201
        /\ DOMAIN r.body = {"id", "email", "username", "fullName", "userType"}
        /\ r.body = [id |-> userId, email |-> c.body.email, username |-> c.body.username,
                     fullName |-> c.body.fullName, userType |-> c.body.userType]

RegisterStoresHashedUser ==
    /\ \A sid \in SessionIds, body \in RegisterBodies :
          (registerUserSchema(body) /\ ~Taken(body) /\ Register(sid, body)) =>
              inflight' = inflight (+)
                            SetToBag({[kind |-> "register", sid |-> sid, body |-> body]})
    /\ \A c \in Parked("register"), salt \in Salts :
          RegisterHashed(c, salt) =>
              /\ DOMAIN users' = DOMAIN users \cup {userId}
              /\ \A id \in DOMAIN users : users'[id] = users[id]
              /\ users'[userId].id = userId
              /\ users'[userId].email = c.body.email
              /\ users'[userId].username = c.body.username
              /\ users'[userId].userType = c.body.userType
              /\ users'[userId].password = bcryptHash(c.body.password, salt)
              /\ users'[userId].password # c.body.password
              /\ bcryptCompare(c.body.password, users'[userId].password)

\* C7: a register request that passes validation and whose email and
\* username are not taken goes on to hash the password and then answers 201
\* with id, email, username, fullName and userType and no password; the user
\* it stores has the request's userType and, as password, the hash and not
\* the plaintext.
RegisterCreatesUser ==
    []UniqueRegisterGoesOn /\ []RegisterAnswers201 /\ [][RegisterStoresHashedUser]_vars

\* a user stored with the userType of its request, here one that is neither
\* role, and with a hashed password, while another register is parked
CreatorIsStored ==
    /\ \E id \in DOMAIN users, salt \in Salts :
          /\ users[id].userType = "creator"
          /\ users[id].password = bcryptHash("pw-b", salt)
    /\ Parked("register") # {}

InvalidCredentials == Response(401, "Invalid credentials", <<>>)

\* the login names an email nobody has; the parked login's password is wrong
UnknownEmail(body) == loginUserSchema(body) /\ ~EmailTaken(body.email)
WrongPassword(c) == ~bcryptCompare(c.body.password, c.user.password)

FailedLoginsAnswerAlike ==
    /\ \A body \in LoginBodies : UnknownEmail(body) => LoginResponse(body) = InvalidCredentials
    /\ \A c \in Parked("login") :
          WrongPassword(c) => LoginComparedResponse(c) = InvalidCredentials

\* a step that changes anything is no login with an unknown email, and one
\* that changes storage or a session is neither the first step of a login
\* nor the second step of one with a wrong password
FailedLoginChangesNothing ==
    /\ \/ UNCHANGED vars
       \/ \A sid \in SessionIds, body \in LoginBodies :
             UnknownEmail(body) => ~Login(sid, body)
    /\ \/ UNCHANGED <<storage, sessions>>
       \/ /\ \A sid \in SessionIds, body \in LoginBodies : ~Login(sid, body)
          /\ \A c \in Parked("login") : WrongPassword(c) => ~LoginCompared(c)

\* C8: a login with an email nobody registered and a login with a registered
\* email and a wrong password get the same response, 401 "Invalid
\* credentials", and neither changes a session (one without userId and
\* userType stays so) or storage.
FailedLoginsAreAlike == []FailedLoginsAnswerAlike /\ [][FailedLoginChangesNothing]_vars

\* a login with a wrong password is parked on bcrypt.compare for a session
\* without userId, and one of the login bodies names an email nobody has
WrongPasswordIsCompared ==
    /\ \E c \in Parked("login") : WrongPassword(c) /\ sessions[c.sid] = Anonymous
    /\ \E body \in LoginBodies : UnknownEmail(body)

StatusFollowsSession ==
    \A sid \in SessionIds :
        IF Authenticated(sid)
        THEN /\ sessions[sid].userId \in DOMAIN users
             /\ StatusResponse(sid) =
                   Response(200, "", [isAuthenticated |-> TRUE,
                                      userType |-> users[sessions[sid].userId].userType])
        ELSE StatusResponse(sid) = Response(401, "", [isAuthenticated |-> FALSE])

LoginSetsSession ==
    /\ \A c \in Parked("login") :
          (~WrongPassword(c) /\ LoginCompared(c)) =>
              /\ c.user.id \in DOMAIN users /\ users[c.user.id] = c.user
              /\ sessions'[c.sid] = [userId |-> c.user.id, userType |-> c.user.userType]
    /\ \A sid \in SessionIds :
          sessions'[sid] # sessions[sid] =>
              \/ Logout(sid)
              \/ SessionExpiry(sid)
              \/ \E c \in Parked("login") :
                    c.sid = sid /\ ~WrongPassword(c) /\ LoginCompared(c)

\* C9: a login with the right password writes the id and the userType of the
\* stored user to the session; a session keeps what it holds until a logout,
\* its expiry or another successful login on it; and GET /api/auth/status
\* answers 200 with isAuthenticated true and the userType of that user while
\* the session holds a userId, and 401 with isAuthenticated false while it
\* holds none, as from the start.
SessionFollowsLogin == []StatusFollowsSession /\ [][LoginSetsSession]_vars

\* one session logged in as a user whose userType is "creator", the other
\* one never logged in or logged out
CreatorIsLoggedIn ==
    \E sid \in SessionIds, other \in SessionIds :
        /\ Authenticated(sid)
        /\ users[sessions[sid].userId].userType = "creator"
        /\ sessions[sid].userType = "creator"
        /\ ~Authenticated(other)

\* every route that asks for a session answers `sid` with 401
TreatedAsUnauthenticated(sid) ==
    /\ MeResponse(sid).status = 401
    /\ StatusResponse(sid).status = 401
    /\ NonAuthStatuses(sid) = {401}

LogoutEndsSession ==
    \A sid \in SessionIds :
        Logout(sid) =>
            /\ TreatedAsUnauthenticated(sid)'
            /\ \A other \in SessionIds \ {sid} : sessions'[other] = sessions[other]

\* C10: once POST /api/auth/logout has answered, /api/auth/me,
\* /api/auth/status and every non-auth route answer a request made with that
\* session with 401, and the other sessions are as they were.  (Refuted for
\* the routes of C3, which answer 400 or 500 before they look at the session.)
LoggedOutGets401 == [][LogoutEndsSession]_vars

\* the part of C10 that holds: the logout leaves the session without userId
\* and the other sessions as they were, so that /api/auth/me and
\* /api/auth/status answer 401
LogoutClearsSession ==
    [][\A sid \in SessionIds :
          Logout(sid) =>
              /\ ~Authenticated(sid)'
              /\ MeResponse(sid)'.status = 401
              /\ StatusResponse(sid)'.status = 401
              /\ \A other \in SessionIds \ {sid} : sessions'[other] = sessions[other]]_vars

---------------------------------------------------------------------------
(* Properties of the video upload and its processing timer, under          *)
(* SpecTimers.                                                             *)

\* multer stored the file: there is one, it is a video within the size limit
Accepted(file) == file # NoFile /\ MulterAccepts(file)

\* adPreferences is absent or the JSON text the upload form defines
WellFormed(body) == Falsy(body.adPreferences) \/ ~JSONparseThrows(body.adPreferences)

\* processedFilePath, thumbnailPath and duration are unset, or all set
Unprocessed(video) ==
    /\ video.processedFilePath = Undef
    /\ video.thumbnailPath = Undef
    /\ video.duration = NoId
IsProcessed(video) ==
    /\ video.status = "ready"
    /\ {"processedFilePath", "thumbnailPath", "duration"} \subseteq DOMAIN video
    /\ ~Falsy(video.processedFilePath)
    /\ ~Falsy(video.thumbnailPath)
    /\ video.duration >= 60

UploadAnswersProcessing ==
    \A sid \in SessionIds, file \in Files, body \in VideoForms, path \in FilePaths :
        (Authenticated(sid) /\ Accepted(file) /\ WellFormed(body)) =>
            LET r == UploadVideoResponse(sid, file, body, path) IN
            /\ r.status = 201
            /\ r.body.id = videoId
            /\ r.body.userId = sessions[sid].userId
            /\ r.body.status = "processing"
            /\ Unprocessed(r.body)

\* the upload stores the video it answers with and sets the timer for it
UploadStoresVideo ==
    \/ UNCHANGED vars
    \/ \A sid \in SessionIds, file \in Files, body \in VideoForms, path \in FilePaths :
          (Authenticated(sid) /\ Accepted(file) /\ WellFormed(body)
             /\ UploadVideo(sid, file, body, path)) =>
              /\ videoId \notin DOMAIN videos
              /\ videos' = videos @@
                             (videoId :> UploadVideoResponse(sid, file, body, path).body)
              /\ timers' = timers \cup {[videoId |-> videoId, path |-> path]}

\* the timer of a video that is stored makes it "ready" and touches nothing else
TimerMakesReady ==
    \/ UNCHANGED vars
    \/ \A t \in timers, duration \in Durations :
          (t.videoId \in DOMAIN videos /\ ProcessingTimer(t, duration)) =>
              /\ DOMAIN videos' = DOMAIN videos
              /\ IsProcessed(videos'[t.videoId])
              /\ videos'[t.videoId] = Merge(videos[t.videoId],
                      [status |-> "ready", processedFilePath |-> t.path \o "-processed",
                       thumbnailPath |-> t.path \o "-thumbnail", duration |-> duration])
              /\ \A id \in DOMAIN videos \ {t.videoId} : videos'[id] = videos[id]

TimerIsSet(id) == \E t \in timers : t.videoId = id

\* C11 as it is stated: every upload by an authenticated session with a file
\* multer accepted answers 201.  (Refuted: with an adPreferences field that is
\* no JSON text, JSON.parse throws and the handler's catch answers 500.)
AcceptedUploadAnswers201 ==
    \A sid \in SessionIds, file \in Files, body \in VideoForms, path \in FilePaths :
        (Authenticated(sid) /\ Accepted(file)) =>
            UploadVideoResponse(sid, file, body, path).status = 201

\* C11: an upload by an authenticated session with a file multer accepted
\* (and adPreferences absent or JSON) answers 201 with the stored video, in
\* status "processing" with processedFilePath, thumbnailPath and duration
\* unset, and sets its timer; the timer fires, and unless the video was
\* deleted the stored video is then "ready" with all three set.
VideoBecomesReady ==
    /\ []UploadAnswersProcessing
    /\ [][UploadStoresVideo /\ TimerMakesReady]_vars
    /\ \A id \in RecordIds :
          TimerIsSet(id) ~> (id \notin DOMAIN videos \/ IsProcessed(videos[id]))

\* a stored video that its timer made ready, and no timer left
VideoIsReady ==
    /\ timers = {}
    /\ \E id \in DOMAIN videos : IsProcessed(videos[id])

\* the timer of a video that is no longer stored leaves everything but the
\* set of timers as it was
StaleTimerChangesNothing ==
    \/ UNCHANGED vars
    \/ \A t \in timers, duration \in Durations :
          (t.videoId \notin DOMAIN videos /\ ProcessingTimer(t, duration)) =>
              /\ UNCHANGED <<storage, sessions, inflight>>
              /\ timers' = timers \ {t}

\* a video is stored only under an id that no timer was set for before
TimerIdIsNotReused ==
    \A t \in timers : t.videoId < videoId

\* C12: when a video was deleted before its processing timer fires, the
\* callback's update finds nothing, the error stays in the callback, and
\* storage is as it was: the video is not stored again and no other video is
\* changed (the timer's id is given to no later video).
DeletedVideoStaysDeleted == []TimerIdIsNotReused /\ [][StaleTimerChangesNothing]_vars

\* the timer is still set for a video that was deleted
TimerOutlivesVideo ==
    \E t \in timers : t.videoId \notin DOMAIN videos /\ t.videoId < videoId

---------------------------------------------------------------------------
(* Properties of the deletes and of multer's checks, under Spec. *)

\* the DELETE of a stored record by its owner gets past the three checks
OwnerDeleteGoesOn ==
    \A sid \in SessionIds :
        /\ \A id \in DOMAIN ads :
              (Authenticated(sid) /\ Owns(sid, ads[id])) =>
                  DeleteAdResponse(sid, id) \in
                      {Pending, Response(200, "Ad deleted successfully", <<>>)}
        /\ \A id \in DOMAIN videos :
              (Authenticated(sid) /\ Owns(sid, videos[id])) =>
                  DeleteVideoResponse(sid, id) \in
                      {Pending, Response(200, "Video deleted successfully", <<>>)}

\* whether or not a file was missing, the delete that finds its record
\* answers 200
MissingFileAnswers200 ==
    \A c \in BagToSet(inflight), missing \in BOOLEAN :
        /\ (c.kind = "deleteAd" /\ c.id \in DOMAIN ads) =>
              DeleteAdUnlinkedResponse(c, missing).status = 200
        /\ (c.kind = "deleteVideo" /\ c.id \in DOMAIN videos) =>
              DeleteVideoUnlinkedResponse(c, missing).status = 200

\* ... and removes the record and nothing else, after which GET /:id answers
\* the owner 404 and the owner's list is without the id
MissingFileRemovesRecord ==
    \/ UNCHANGED vars
    \/ \A c \in BagToSet(inflight), missing \in BOOLEAN :
          /\ (c.kind = "deleteAd" /\ c.id \in DOMAIN ads /\ DeleteAdUnlinked(c, missing)) =>
                /\ ads' = Without(ads, c.id)
                /\ \A sid \in SessionIds : Authenticated(sid)' =>
                      /\ GetAdResponse(sid, c.id)'.status = 404
                      /\ \A i \in DOMAIN GetAdsResponse(sid)'.body :
                            GetAdsResponse(sid)'.body[i].id # c.id
          /\ (c.kind = "deleteVideo" /\ c.id \in DOMAIN videos
                 /\ DeleteVideoUnlinked(c, missing)) =>
                /\ videos' = Without(videos, c.id)
                /\ \A sid \in SessionIds : Authenticated(sid)' =>
                      /\ GetVideoResponse(sid, c.id)'.status = 404
                      /\ \A i \in DOMAIN GetVideosResponse(sid)'.body :
                            GetVideosResponse(sid)'.body[i].id # c.id

\* C13: the owner's DELETE of a stored ad or video goes on to the unlink, and
\* whether or not the unlink failed on a missing file it answers 200 and
\* removes the record; from then on GET /:id answers a logged-in owner 404
\* and the list is without the id.
MissingFileDoesNotFailDelete ==
    /\ []OwnerDeleteGoesOn
    /\ []MissingFileAnswers200
    /\ [][MissingFileRemovesRecord]_vars

\* the owner's delete of a processed video is parked on its unlinks: the
\* processed file and the thumbnail were never written to disk
ProcessedVideoIsBeingDeleted ==
    \E c \in Parked("deleteVideo") :
        /\ c.id \in DOMAIN videos
        /\ IsProcessed(videos[c.id])
        /\ Owns(c.sid, videos[c.id])

\* a step that changes the ads is no upload of a file over 100 MB
LargeAdCreatesNothing ==
    \/ UNCHANGED <<ads, adId>>
    \/ \A sid \in SessionIds, file \in Files, body \in AdForms, path \in FilePaths :
          file.size > AdSizeLimit => ~UploadAd(sid, file, body, path)

\* C14: an upload to /api/ads/upload of a file over 100 MB is rejected, and
\* the ads and the ad id counter are as they were.  (Refuted: the one multer
\* instance of both upload routes lets everything up to 2 GB through.)
LargeAdIsRejected ==
    /\ [](\A sid \in SessionIds, file \in Files, body \in AdForms, path \in FilePaths :
             file.size > AdSizeLimit => UploadAdResponse(sid, file, body, path).status # 201)
    /\ [][LargeAdCreatesNothing]_vars

\* MIME types that are no video
NonVideoTypes == {"application/pdf", "image/png"}

NotAVideo(file) == file.mimetype \in NonVideoTypes

NonVideoIsRefused ==
    \A sid \in SessionIds, file \in Files, path \in FilePaths :
        NotAVideo(file) =>
            /\ \A body \in AdForms : UploadAdResponse(sid, file, body, path) = MulterError
            /\ \A body \in VideoForms :
                  UploadVideoResponse(sid, file, body, path) = MulterError

\* a step that changes anything is no upload of a file that is no video
NonVideoCreatesNothing ==
    \/ UNCHANGED vars
    \/ \A sid \in SessionIds, file \in Files, path \in FilePaths :
          NotAVideo(file) =>
              /\ \A body \in AdForms : ~UploadAd(sid, file, body, path)
              /\ \A body \in VideoForms : ~UploadVideo(sid, file, body, path)

\* C15: an upload to either route of a file whose MIME type is
\* application/pdf, or any other that does not start with "video/", is
\* answered with multer's error and creates no ad and no video and sets no
\* timer.
NonVideoIsRejected == []NonVideoIsRefused /\ [][NonVideoCreatesNothing]_vars

\* an authenticated session that could still create a record
UploaderIsLoggedIn ==
    /\ RecordsLeft
    /\ \E sid \in SessionIds : Authenticated(sid)
    /\ \E file \in Files : file.mimetype = "application/pdf"

---------------------------------------------------------------------------
(* Properties of the analytics routes, under Spec. *)

HasRole(sid, role) ==
    /\ sessions[sid].userId \in DOMAIN users
    /\ users[sessions[sid].userId].userType = role

\* C17: to an authenticated session GET /api/analytics/summary answers 403
\* unless the stored user of the session has userType "company", and GET
\* /api/analytics/creator/summary answers 403 unless it has "individual";
\* otherwise they answer 200 with activeCampaigns the number of stored
\* campaigns of the requester in status "active", totalVideos the number of
\* the requester's stored videos and processingVideos the number of those in
\* status "processing".
AnalyticsFollowRole ==
    \A sid \in SessionIds, rnd \in RandomDraws :
        Authenticated(sid) =>
            LET uid == sessions[sid].userId
                company == AnalyticsSummaryResponse(sid, rnd)
                creator == CreatorAnalyticsSummaryResponse(sid, rnd)
            IN  /\ company.status = IF HasRole(sid, "company") THEN 200 ELSE 403
                /\ creator.status = IF HasRole(sid, "individual") THEN 200 ELSE 403
                /\ company.status = 200 =>
                      company.body.activeCampaigns =
                          Cardinality({id \in OwnKeys(campaigns, uid) :
                                          campaigns[id].status = "active"})
                /\ creator.status = 200 =>
                      /\ creator.body.totalVideos = Cardinality(OwnKeys(videos, uid))
                      /\ creator.body.processingVideos =
                            Cardinality({id \in OwnKeys(videos, uid) :
                                            videos[id].status = "processing"})

\* a company with a campaign of its own that is not active, and a creator,
\* both logged in
CompanyAndCreatorAskForAnalytics ==
    \E sid \in SessionIds, other \in SessionIds :
        /\ Authenticated(sid) /\ HasRole(sid, "company")
        /\ Authenticated(other) /\ HasRole(other, "individual")
        /\ \E id \in OwnKeys(campaigns, sessions[sid].userId) :
              campaigns[id].status = "completed"

---------------------------------------------------------------------------
(* Properties of MemStorage, under SpecStorage. *)

IdsBelowCounter ==
    \A kind \in Kinds :
        /\ CounterOf(kind) >= 1
        /\ \A id \in DOMAIN MapOf(kind) : id >= 1 /\ id < CounterOf(kind)

\* a step stores a new key for a kind exactly when it advances the kind's
\* counter, by one, and the new key is the value the counter had
CreateAssignsCounter ==
    \A kind \in Kinds :
        /\ CounterOf(kind)' \in {CounterOf(kind), CounterOf(kind) + 1}
        /\ DOMAIN MapOf(kind)' \ DOMAIN MapOf(kind) =
              IF CounterOf(kind)' = CounterOf(kind) THEN {} ELSE {CounterOf(kind)}
        /\ CounterOf(kind)' # CounterOf(kind) =>
              MapOf(kind)'[CounterOf(kind)] = CreateResult(kind, StorageInput(kind))

\* C16: for each of the seven kinds the counter starts at 1, a create stores
\* its record under the counter's value and advances the counter by one, and
\* nothing else moves a counter or adds a key: the ids are 1, 2, 3, ... in
\* creation order, the counter is above every id given out, and an id is not
\* given out again after its record was deleted.
IdsAreNeverReused == []IdsBelowCounter /\ [][CreateAssignsCounter]_vars

\* a record stored under id 2 after the record with id 1 was deleted
SecondIdOutlivesFirst ==
    \E kind \in Kinds : DOMAIN MapOf(kind) = {2} /\ CounterOf(kind) = 3

\* the maps and counters of the kinds other than `kind` are as they were
OtherKindsKept(kind) ==
    \A other \in Kinds \ {kind} :
        MapOf(other)' = MapOf(other) /\ CounterOf(other)' = CounterOf(other)

UpdateMergesPartial ==
    \A kind \in Kinds : \A id \in StorageIds, partial \in StoragePartials(kind) :
        StorageUpdate(kind, id, partial) =>
            IF id \notin DOMAIN MapOf(kind)
            THEN UpdateResult(kind, id, partial) = NotFound(id) /\ UNCHANGED vars
            ELSE LET old == MapOf(kind)[id]
                     new == MapOf(kind)'[id]
                 IN  /\ UpdateResult(kind, id, partial) = new
                     /\ DOMAIN MapOf(kind)' = DOMAIN MapOf(kind)
                     /\ DOMAIN new = DOMAIN old \cup DOMAIN partial
                     /\ \A f \in DOMAIN partial : new[f] = partial[f]
                     /\ \A f \in DOMAIN old \ DOMAIN partial : new[f] = old[f]
                     /\ \A k \in DOMAIN MapOf(kind) \ {id} : MapOf(kind)'[k] = MapOf(kind)[k]
                     /\ CounterOf(kind)' = CounterOf(kind)
                     /\ OtherKindsKept(kind)

\* C19: update(id, partial) of each kind throws not-found and changes nothing
\* when the id is not in the map; otherwise it stores and returns the old
\* record with the fields of partial overwritten, every other field of the
\* record, every other record and every counter as they were.
UpdateIsShallowMerge == [][UpdateMergesPartial]_vars

\* a campaign whose status and budget an update overwrote and whose name it kept
CampaignIsUpdated ==
    \E id \in DOMAIN campaigns :
        /\ campaigns[id].status = "paused"
        /\ campaigns[id].budget = "5"
        /\ campaigns[id].name = "Launch"
        /\ campaigns[id].id = id

DeleteRemovesOneEntry ==
    \A kind \in Kinds, id \in StorageIds :
        StorageDelete(kind, id) =>
            IF id \notin DOMAIN MapOf(kind)
            THEN DeleteResult(kind, id) = NotFound(id) /\ UNCHANGED vars
            ELSE /\ DeleteResult(kind, id) # NotFound(id)
                 /\ DOMAIN MapOf(kind)' = DOMAIN MapOf(kind) \ {id}
                 /\ \A k \in DOMAIN MapOf(kind) \ {id} : MapOf(kind)'[k] = MapOf(kind)[k]
                 /\ CounterOf(kind)' = CounterOf(kind)
                 /\ OtherKindsKept(kind)

\* the records that name user `id` as their owner, and the ads of campaign `id`
RecordsOfUser(id) ==
    [kind \in Kinds \ {"user", "videoAd"} |->
        {r \in Range(ValuesOf(MapOf(kind), DOMAIN MapOf(kind))) : r.userId = id}]
AdsOfCampaign(id) == {ads[k] : k \in {j \in DOMAIN ads : ads[j].campaignId = id}}

NoCascade ==
    \A id \in StorageIds :
        /\ (id \in DOMAIN users /\ StorageDelete("user", id)) =>
              RecordsOfUser(id)' = RecordsOfUser(id)
        /\ (id \in DOMAIN campaigns /\ StorageDelete("campaign", id)) =>
              AdsOfCampaign(id)' = AdsOfCampaign(id)

RouteDeleteLeavesAds ==
    [][\A sid \in SessionIds, id \in RequestIds :
          DeleteCampaign(sid, id) =>
              /\ UNCHANGED <<users, companyProfiles, creatorProfiles, ads, videos, videoAds>>
              /\ AdsOfCampaign(id)' = AdsOfCampaign(id)]_vars

---------------------------------------------------------------------------
(* Properties of the browser, under SpecClient. *)

\* the tab has nothing left to do
Settled(c) == c.effects = {}

\* C18: a tab that has settled after the auth-status endpoint reported its
\* session authenticated shows the dashboard of the user's role, the company
\* dashboard at /dashboard/company for "company" and the creator dashboard at
\* /dashboard/creator for "individual", also after a login; a tab whose
\* session is not authenticated shows the landing page.  (Refuted: the
\* Router shows the creator dashboard to the userType "creator" only, which
\* no registered creator has.)
ClientEndsOnDashboard ==
    \A sid \in SessionIds :
        LET c == client[sid] IN
        /\ (Settled(c) /\ c.isAuthenticated /\ Authenticated(sid)
               /\ c.userType = sessions[sid].userType) =>
              /\ c.userType = "company" =>
                    c.location = CompanyPath /\ Page(c) = "CompanyDashboard"
              /\ c.userType = "individual" =>
                    c.location = CreatorPath /\ Page(c) = "CreatorDashboard"
        /\ (Settled(c) /\ ~c.isAuthenticated /\ ~Authenticated(sid)) => Page(c) = "Home"

---------------------------------------------------------------------------
(* Properties of register when the profile creation fails, under           *)
(* SpecFaults.                                                             *)

\* the profiles, of either kind, that name user `id`
ProfilesOf(id) ==
    {<<"company", k>> : k \in {j \in DOMAIN companyProfiles : companyProfiles[j].userId = id}}
      \cup {<<"creator", k>> : k \in {j \in DOMAIN creatorProfiles :
                                        creatorProfiles[j].userId = id}}

\* a stored user without a profile
Orphan(id) == id \in DOMAIN users /\ ProfilesOf(id) = {}

\* the failed register answers 500 and leaves the user it created, with no profile
FailureLeavesOrphan ==
    \A c \in BagToSet(inflight), salt \in Salts :
        RegisterProfileFailed(c, salt) =>
            /\ RegisterProfileFailedResponse(c, salt).status = 500
            /\ \A id \in {userId} :
                  /\ id \notin DOMAIN users
                  /\ Orphan(id)'
                  /\ users'[id].email = c.body.email

\* nothing takes an orphan out of storage or gives it a profile
OrphanStays == \A id \in 1..MaxUsers : Orphan(id) => Orphan(id)'

\* a register with an orphan's email, in any case of the letters, is refused
OrphanEmailIsTaken ==
    \A id \in DOMAIN users, body \in RegisterBodies \cup {Alice, Bob} :
        (Orphan(id) /\ registerUserSchema(body)
           /\ toLowerCase(body.email) = toLowerCase(users[id].email)) =>
            RegisterResponse(body) = Response(400, "Email already in use", <<>>)

\* C21: when createUser succeeded and the profile creation that follows
\* fails, register answers 500, the new user stays in storage without a
\* profile, and a later register with the same email answers 400.
ProfileFailureLeavesOrphan ==
    [][FailureLeavesOrphan /\ OrphanStays]_vars /\ []OrphanEmailIsTaken

\* Alice is stored without a profile while Bob has his
OrphanIsStored ==
    \E a, b \in DOMAIN users :
        /\ users[a].email = "a@x.io" /\ Orphan(a)
        /\ users[b].email = "b@x.io" /\ ~Orphan(b)

---------------------------------------------------------------------------
(* Properties of the stored users, under SpecAuth. *)

\* C22: after any sequence of register requests that pass the schema, the
\* userType of every stored user is "company" or "individual".  (Refuted:
\* the schema takes any string, and register stores it.)
StoredUserTypesAreRoles ==
    \A id \in DOMAIN users : users[id].userType \in {"company", "individual"}

---------------------------------------------------------------------------
(* Properties of the stored campaigns, ads and videos, under Spec. *)

\* C23: after any sequence of route requests the userId of every stored
\* campaign, ad and video is the id of a stored user.  (Refuted: PATCH hands
\* req.body to update as it came, and a body may name any userId.)
OwnersExist ==
    /\ \A id \in DOMAIN campaigns : campaigns[id].userId \in DOMAIN users
    /\ \A id \in DOMAIN ads : ads[id].userId \in DOMAIN users
    /\ \A id \in DOMAIN videos : videos[id].userId \in DOMAIN users

\* no user has two profiles, of one kind or of both
AtMostOneProfile == \A id \in DOMAIN users : Cardinality(ProfilesOf(id)) <= 1

\* the register that answers 201 leaves its new user with one profile, of
\* the kind of its userType
RegisterCreatesMatchingProfile ==
    \A c \in BagToSet(inflight), salt \in Salts :
        (RegisterHashed(c, salt) /\ RegisterHashedResponse(c, salt).status = 201) =>
            \A id \in {userId} :
                /\ id \in DOMAIN users'
                /\ Cardinality(ProfilesOf(id)') = 1
                /\ \A p \in ProfilesOf(id)' :
                      /\ c.body.userType = "company" => p[1] = "company"
                      /\ c.body.userType = "individual" => p[1] = "creator"

\* C24: every user has at most one profile over the company and the creator
\* profiles together, and after a register that answered 201 the new user
\* has exactly one, a company profile for "company" and a creator profile
\* for "individual".
OneProfilePerUser == []AtMostOneProfile /\ [][RegisterCreatesMatchingProfile]_vars

\* the company with its company profile and the creator with his creator profile
BothKindsOfProfile ==
    \E a, b \in DOMAIN users :
        /\ users[a].userType = "company"
        /\ \E k \in DOMAIN companyProfiles : ProfilesOf(a) = {<<"company", k>>}
        /\ users[b].userType = "individual"
        /\ \E k \in DOMAIN creatorProfiles : ProfilesOf(b) = {<<"creator", k>>}

\* how far along a video's status is
StatusRank(status) ==
    CASE status = "processing" -> 1 [] status = "ready" -> 2
      [] status = "published" -> 3 [] OTHER -> 0

\* C25: the status of a stored video only moves forward along processing,
\* ready, published; in particular the processing timer that fires after
\* the owner's PATCH does not set a published video back to ready.
\* (Refuted: the timer writes status "ready" whatever the status is.)
StatusOnlyMovesForward ==
    [][\A id \in DOMAIN videos \cap DOMAIN videos' :
          StatusRank(videos[id].status) <= StatusRank(videos'[id].status)]_vars

---------------------------------------------------------------------------
(* Properties of PATCH requests in flight together, under SpecPatch. *)

\* the requests in flight that the handler has answered 200
Answered200 == {c \in Parked("patch") : c.status = 200}

\* the fields of a request's body that no other body for its entity names
\* and the processing timer does not write
OwnFields(c) ==
    {f \in DOMAIN c.body :
        /\ \A body \in PatchBodies(c.entity) \ {c.body} : f \notin DOMAIN body
        /\ c.entity = "video" => f \notin DOMAIN Processed("", 0)}

\* the handler answers the owner 200 whatever was written since the request
\* was sent, and stores the body's fields over the record as it is now:
\* every field of the body is written, every other field is kept
PatchWritesOverCurrent ==
    \A c \in BagToSet(inflight) :
        PatchHandled(c) =>
            /\ PatchResponseOf(c).status = 200
            /\ \A f \in DOMAIN c.body : MapOf(c.entity)'[c.id][f] = c.body[f]
            /\ \A f \in DOMAIN MapOf(c.entity)[c.id] \ DOMAIN c.body :
                  MapOf(c.entity)'[c.id][f] = MapOf(c.entity)[c.id][f]

\* what only one request writes is not lost
OwnFieldsAreKept ==
    \A c \in Answered200 : \A f \in OwnFields(c) : MapOf(c.entity)[c.id][f] = c.body[f]

\* C26: two PATCH requests by the owner on the same campaign, ad or video
\* that are in flight together can lose an update: both are answered 200 and
\* the stored record lacks a value one of them wrote.  The handlers do not
\* interleave; the later one writes over the earlier one's fields without a
\* check, and a field only one of them wrote is kept.
LaterPatchWritesOverEarlier == [][PatchWritesOverCurrent]_vars /\ []OwnFieldsAreKept

\* both requests are still in flight, both were answered 200, and of the
\* values the first wrote the record has one and lacks the other, on a
\* record
LostUpdate(entity) ==
    \E c1, c2 \in Answered200 :
        /\ c1.entity = entity /\ c2.entity = entity /\ c1.id = c2.id
        /\ \E f \in DOMAIN c1.body : MapOf(entity)[c1.id][f] # c1.body[f]
        /\ \E f \in DOMAIN c1.body : MapOf(entity)[c1.id][f] = c1.body[f]
        /\ \A f \in DOMAIN c2.body : MapOf(entity)[c2.id][f] = c2.body[f]

UpdateIsLost == \E entity \in Entities : LostUpdate(entity)

\* C27: every entry of a storage map is stored under the key that is the
\* id of its record, also after PATCH requests whose body has an id, so
\* get(id) returns no record with another id.  (Refuted: update stores
\* { ...record, ...body } under the old key, id included.)
KeysAreIds ==
    \A kind \in Kinds : \A k \in DOMAIN MapOf(kind) : MapOf(kind)[k].id = k

---------------------------------------------------------------------------
(* Properties of the stored password, under SpecAuth. *)

\* the fields of a stored user that hold a string, the hash aside
OtherStringFields(user) ==
    DOMAIN user \cap {"email", "username", "fullName", "userType", "confirmPassword",
                      "createdAt"}

\* C28: no field of a stored user holds the plaintext of the password its
\* hash was made of.  (Refuted: createUser is handed req.body with only
\* password replaced, and confirmPassword goes into the record with it.)
NoPlaintextPasswordIsStored ==
    \A id \in DOMAIN users : \A f \in OtherStringFields(users[id]) :
        ~bcryptCompare(users[id][f], users[id].password)

---------------------------------------------------------------------------
(* Properties of DELETE requests in flight together, under SpecDeletes. *)

\* C29: of two DELETE requests of the owner for the same ad, or the same
\* video, that are parked on their unlink together, one is answered 200 and
\* removes the record, and the other, which finds the record gone, is
\* answered 404, not 500.  (Refuted: the second storage delete throws and
\* the catch answers 500.)
SecondDeleteAnswers404 ==
    [][\A c \in BagToSet(inflight), missing \in BOOLEAN :
          /\ DeleteAdUnlinked(c, missing) =>
                IF getAd(c.id) = Undefined
                THEN DeleteAdUnlinkedResponse(c, missing).status = 404
                ELSE /\ DeleteAdUnlinkedResponse(c, missing).status = 200
                     /\ c.id \notin DOMAIN ads'
          /\ DeleteVideoUnlinked(c, missing) =>
                IF getVideo(c.id) = Undefined
                THEN DeleteVideoUnlinkedResponse(c, missing).status = 404
                ELSE /\ DeleteVideoUnlinkedResponse(c, missing).status = 200
                     /\ c.id \notin DOMAIN videos']_vars

\* ---------------------------------------------------------------------------
\* C30  GET /api/videos/:id/download
\* ---------------------------------------------------------------------------

IsOwnerOf(sid, id) == Authenticated(sid) /\ id \in DOMAIN videos /\ Owns(sid, videos[id])

\* the owner gets 200 exactly for a "ready" or "published" video and 400
\* otherwise; the url of a 200 is processedFilePath when set, else rawFilePath
OwnerDownloadFollowsStatus ==
    \A sid \in SessionIds, id \in DOMAIN videos :
        IsOwnerOf(sid, id) =>
            LET r == DownloadVideoResponse(sid, id) IN
            IF videos[id].status \in {"ready", "published"}
            THEN /\ r.status = 200
                 /\ r.body.url = IF videos[id].processedFilePath # Undef
                                  THEN videos[id].processedFilePath
                                  ELSE videos[id].rawFilePath
            ELSE r.status = 400

\* a video nobody published: refused while its timer is pending, allowed once
\* the timer has fired, with the processed file as the url
UnpatchedFollowsTimer ==
    \A sid \in SessionIds, id \in DOMAIN videos :
        (IsOwnerOf(sid, id) /\ videos[id].status # "published") =>
            LET r == DownloadVideoResponse(sid, id) IN
            IF TimerIsSet(id)
            THEN r.status = 400 /\ videos[id].status = "processing"
            ELSE r.status = 200 /\ r.body.url = videos[id].processedFilePath

\* a stored video changes only in a PATCH of it or in its timer's callback,
\* and a new video starts with its timer pending
VideoChangesByPatchOrTimer ==
    /\ \A id \in DOMAIN videos \cap DOMAIN videos' :
          videos'[id] # videos[id] =>
              \/ \E sid \in SessionIds, body \in VideoPatches : PatchVideo(sid, id, body)
              \/ \E t \in timers, duration \in Durations :
                    t.videoId = id /\ ProcessingTimer(t, duration)
    /\ \A id \in DOMAIN videos' \ DOMAIN videos :
          /\ videos'[id].status = "processing"
          /\ TimerIsSet(id)'
    /\ \A id \in DOMAIN videos \cap DOMAIN videos' :
          (TimerIsSet(id)' /\ ~TimerIsSet(id)) => FALSE

\* C30: the owner's download answers 200 only for a "ready" or "published"
\* video and otherwise 400, with processedFilePath, when set, else
\* rawFilePath as the url; a stored video that was never patched is refused
\* in every state before its timer has fired and served in every state after.
DownloadFollowsProcessing ==
    /\ []OwnerDownloadFollowsStatus
    /\ []UnpatchedFollowsTimer
    /\ [][VideoChangesByPatchOrTimer]_vars

\* the timer of the owner's video has fired; the download, refused until
\* then, is served from the processed file
OwnerDownloadsProcessed ==
    \E sid \in SessionIds, id \in DOMAIN videos :
        /\ IsOwnerOf(sid, id)
        /\ ~TimerIsSet(id) /\ videos[id].status = "ready"
        /\ DownloadVideoResponse(sid, id).status = 200
        /\ DownloadVideoResponse(sid, id).body.url = videos[id].rawFilePath \o "-processed"

=============================================================================
